---- MODULE Spec2Model ----
(***************************************************************************)
(* Model of the samvad voice client.                                       *)
(*                                                                         *)
(*   - WebSocketManager (websocket-utils, src/unnamed/part_011): one       *)
(*     manager object, the browser WebSocket objects it creates and the    *)
(*     timers it arms.                                                     *)
(*   - VADVoiceClient (src/src/app/VADVoiceClient.tsx): the handlers of    *)
(*     one session that own the pending-request tracker, the reply         *)
(*     handler and the audio element.                                      *)
(*   - MessageThrottler (part_011) and voiceAssistantMachine, each on its  *)
(*     own.                                                                *)
(*                                                                         *)
(* SpecWS runs the manager under an arbitrary caller of its public API.    *)
(* Spec runs the client handlers on top of the same manager, for one       *)
(* session: from Start until the cleanup of the VAD effect.  A change of   *)
(* isStarted is committed with the handler that makes it, so the effect    *)
(* is mounted by the first onOpen and cleaned up by the next onClose.      *)
(* Spec leaves out the events the handlers send to voiceAssistantMachine   *)
(* and the timers that only feed it; no handler reads the machine back     *)
(* except through the state value captured when the VAD effect mounts.     *)
(* SpecRC runs the manager under a caller that connects, disconnects and  *)
(* destroys but sends nothing, with a WebSocket constructor that may throw *)
(* and a server that may answer pings; in SpecWS and Spec the constructor  *)
(* accepts the URL.                                                        *)
(* SpecQ runs the manager under a caller that submits utterances while    *)
(* disconnected, to fill and flush the outbound queue.  SpecThrottle runs  *)
(* one MessageThrottler (part_011) and SpecUI runs voiceAssistantMachine   *)
(* (src/src/app/voiceAssistantMachine.ts) under arbitrary events.          *)
(* SpecConv runs the conversation of one session on an open channel: the   *)
(* machine, the 25 ms debounce that carries events to it, the state        *)
(* timeout effect, the VAD callbacks, the reply handler and the audio      *)
(* elements it creates, with their timers and media events.  SpecConvLive  *)
(* is SpecConv without media load failures, VAD misfires and empty         *)
(* utterances, with every armed timer and pending continuation eventually  *)
(* running.  SpecPlayer runs the useAudioPlayer hook                       *)
(* (src/src/app/hooks/useAudioPlayer.ts) under a caller that plays and     *)
(* cancels.  SpecDrop runs the start of a session on a channel whose       *)
(* connections fail or drop, with the callbacks that feed the machine and  *)
(* the user's start and language buttons.                                  *)
(* SpecSilent runs the VAD callbacks and the timers of the conversation    *)
(* while the server stays silent, every armed timer eventually firing.     *)
(* SpecFlush runs the manager's queue flush against the init message the   *)
(* client sends from onOpen.                                               *)
(* Timers and socket events are asynchronous: an armed timer may fire at   *)
(* any later step.                                                         *)
(***************************************************************************)
EXTENDS Integers, Sequences, FiniteSets, TLC

\* ---------------------------------------------------------------- bounds
MaxSockets == 3
MaxMsgs == 2
MaxUtt == 2
MaxTicks == 2
MaxOverrun == 1
MaxSubmit == 51
MaxLate == 2
MaxThMsgs == 3
MaxThTicks == 4
MaxPlays == 3

\* ------------------------------------------------------ program constants
maxReconnectAttempts == 5
reconnectDelay == 1000
maxReconnectDelay == 30000
maxMessageQueueSize == 100
batchSize == 10
heartbeatInterval == 30000
heartbeatTimeout == 5000
maxPendingAge == 300000
throttleInterval == 100

\* one step of the clock
TickMs == maxPendingAge

\* ---------------------------------------------------------------- state
VARIABLES
  \* WebSocketManager fields
  ws,                 \* this.ws: 0 (null) or the id of a WebSocket object
  reconnectAttempts,
  heartbeatTimer,     \* setInterval handle armed
  reconnectTimer,     \* setTimeout handle armed
  isIntentionalClose,
  messageQueue,
  isDestroyed,
  \* browser / network
  socks,              \* readyState of every WebSocket object created
  nsock,              \* number of WebSocket objects created so far
  wire,               \* messages handed to an OPEN socket, in order
  hbTimeouts,         \* armed heartbeat-reply timeouts (never cancelled)
  flushPending,       \* processBatch scheduled with requestAnimationFrame
  delay,              \* delay of the armed reconnect timer, 0 when none
  hbSock,             \* open socket the outstanding ping went out on, else 0
  \* history of the manager
  scheduled,          \* reconnects scheduled since the last successful open
  reconnectFailed,    \* onReconnectFailed invoked; no connect(), no open since
  hbStale,            \* a reply timeout outlived disconnect() or destroy()
  hbAnswered,         \* the pong for the outstanding ping has arrived
  \* caller
  nextMsg,            \* messages submitted by the caller so far
  lastRet,            \* value returned by the last send()/sendBatch()
  lastCall,           \* name of the last public method called
  disconnected,       \* disconnect() was called and connect() not since
  \* VADVoiceClient refs and state
  wsManagerRef,       \* wsManagerRef.current is a manager
  vadEffect,          \* the effect on isStarted: "none", "mounted", "cleaned"
  vadReady,           \* the MicVAD instance exists and delivers callbacks
  vadSpeaking,        \* MicVAD is between onSpeechStart and onSpeechEnd
  pendingRequestRef,  \* [id, timestamp]; id 0 is null
  isProcessingRef,
  conversationActiveRef,
  activeAudioElementRef, \* 0 (null) or the utterance the element answers
  audioState,         \* "none", "loading", "playing", "stopped"
  isPlayingRef,
  isAudioLoadingRef,
  isPlaying,          \* audioViz.isPlaying
  \* timers armed by the client
  retryTimers,        \* opens whose 1 s retryPendingRequest timer is armed
  procTimers,         \* 30 s processing timeouts armed
  checkTimers,        \* 5 s reconnection checks armed
  interruptTimers,    \* 500 ms timers armed by handleInterruption
  \* environment of the client
  now,                \* Date.now()
  nextUtt,            \* utterances the user has finished so far
  inflight,           \* per socket and utterance: requests not yet answered
  \* history
  txByOpen,           \* transmissions of the pending utterance, per open
  played,             \* playbacks started, per utterance
  acked,              \* per utterance: socket its reply arrived on while pending
  expired,            \* utterances discarded by the age check
  \* MessageThrottler fields
  lastSendTime,
  pendingMessages,
  throttleTimer,      \* setTimeout handle armed
  timerDue,           \* Date.now() at which the armed timer is due
  handed,             \* messages handed to sendFn, in order
  dropped,            \* messages discarded by MessageThrottler.destroy
  clock,              \* Date.now() as the throttler reads it
  \* voiceAssistantMachine
  value,              \* state.value
  error,              \* context.error
  lastEvent,          \* the last event the machine received
  prevValue,          \* state.value before that event
  \* VADVoiceClient: what feeds the machine, and the audio elements
  debounced,          \* event held by stateUpdateTimeoutRef, "none" when idle
  watchdog,           \* state.value the armed state timeout will test
  listenTimers,       \* 100 ms timers armed by handleAudioEnded
  resumeTimers,       \* 100 ms timers armed by the failure paths of a reply
  elemState,          \* per utterance: the Audio element created for its reply
  loadTimers,         \* elements whose 5 s loadTimeout is armed
  playTimers,         \* elements whose 30 s playTimeout is armed
  awaiting,           \* elements whose reply handler has not returned yet
  cancelled,          \* elements stopped by a barge-in
  began,              \* elements that have emitted audio
  bargeIn,            \* a barge-in happened and no utterance was accepted since
  \* useAudioPlayer module state
  activePlayer,       \* 0 (null) or the session whose element is the player
  isSpeaking,
  queue,              \* sessions waiting in the module's queue
  hookIsPlaying,      \* the hook's isPlaying state
  player,             \* per session: state of its Audio element
  onEndCalls,         \* per session: calls of its onEnd
  onErrorCalls,       \* per session: calls of its onError
  nplay               \* sessions requested with playAudioFromUrl so far

mgrVars == <<ws, reconnectAttempts, heartbeatTimer, reconnectTimer,
             isIntentionalClose, messageQueue, isDestroyed,
             socks, nsock, wire, hbTimeouts, flushPending, delay, hbSock,
             scheduled, reconnectFailed, hbStale, hbAnswered>>
callerVars == <<nextMsg, lastRet, lastCall, disconnected>>
clientVars == <<wsManagerRef, vadEffect, vadReady, vadSpeaking,
                pendingRequestRef, isProcessingRef, conversationActiveRef>>
audioVars == <<activeAudioElementRef, audioState, isPlayingRef,
               isAudioLoadingRef, isPlaying>>
timerVars == <<retryTimers, procTimers, checkTimers, interruptTimers>>
envVars == <<now, nextUtt, inflight>>
histVars == <<txByOpen, played, acked, expired>>
appVars == <<clientVars, audioVars, timerVars, envVars, histVars>>
thVars == <<lastSendTime, pendingMessages, throttleTimer, timerDue,
            handed, dropped, clock>>
uiVars == <<value, error, lastEvent, prevValue>>
convVars == <<debounced, watchdog, listenTimers, resumeTimers, elemState,
              loadTimers, playTimers, awaiting, cancelled, began, bargeIn>>
playerVars == <<activePlayer, isSpeaking, queue, hookIsPlaying, player,
                onEndCalls, onErrorCalls, nplay>>
auxVars == <<thVars, uiVars, convVars, playerVars>>
vars == <<mgrVars, callerVars, appVars, auxVars>>

SockIds == 1..(MaxSockets + 1)

\* The manager object together with the browser objects its methods touch.
M ==
  [ws |-> ws, reconnectAttempts |-> reconnectAttempts,
   heartbeatTimer |-> heartbeatTimer, reconnectTimer |-> reconnectTimer,
   isIntentionalClose |-> isIntentionalClose, messageQueue |-> messageQueue,
   isDestroyed |-> isDestroyed, socks |-> socks, nsock |-> nsock,
   wire |-> wire, hbTimeouts |-> hbTimeouts, flushPending |-> flushPending,
   delay |-> delay, hbSock |-> hbSock, scheduled |-> scheduled,
   reconnectFailed |-> reconnectFailed, hbStale |-> hbStale,
   hbAnswered |-> hbAnswered,
   ret |-> FALSE, failed |-> FALSE]

Commit(m) ==
  /\ ws' = m.ws
  /\ reconnectAttempts' = m.reconnectAttempts
  /\ heartbeatTimer' = m.heartbeatTimer
  /\ reconnectTimer' = m.reconnectTimer
  /\ isIntentionalClose' = m.isIntentionalClose
  /\ messageQueue' = m.messageQueue
  /\ isDestroyed' = m.isDestroyed
  /\ socks' = m.socks
  /\ nsock' = m.nsock
  /\ wire' = m.wire
  /\ hbTimeouts' = m.hbTimeouts
  /\ flushPending' = m.flushPending
  /\ delay' = m.delay
  /\ hbSock' = m.hbSock
  /\ scheduled' = m.scheduled
  /\ reconnectFailed' = m.reconnectFailed
  /\ hbStale' = m.hbStale
  /\ hbAnswered' = m.hbAnswered

\* ------------------------------------------------------- WebSocket object
readyState(m) == IF m.ws = 0 THEN "CLOSED" ELSE m.socks[m.ws]

isConnected(m) == m.ws # 0 /\ m.socks[m.ws] = "OPEN"

\* WebSocket.close(): starts the closing handshake of a socket that is
\* connecting or open, does nothing on one that is closing or closed.
wsClose(m) ==
  IF m.ws # 0 /\ m.socks[m.ws] \in {"CONNECTING", "OPEN"}
  THEN [m EXCEPT !.socks[m.ws] = "CLOSING",
                 !.hbSock = IF @ = m.ws THEN 0 ELSE @]
  ELSE m

\* socket s has reached CLOSED
closed(m, s) ==
  [m EXCEPT !.socks[s] = "CLOSED", !.hbSock = IF @ = s THEN 0 ELSE @]

\* ------------------------------------------------------- WebSocketManager
cleanup(m) ==
  [m EXCEPT !.heartbeatTimer = FALSE, !.reconnectTimer = FALSE, !.delay = 0]

sendImmediate(m, msg) ==
  IF m.ws = 0 \/ m.socks[m.ws] = "CONNECTING"
  THEN [m EXCEPT !.ret = FALSE]                    \* ws.send throws
  ELSE IF m.socks[m.ws] = "OPEN"
       THEN [m EXCEPT !.wire = Append(@, msg), !.ret = TRUE]
       ELSE [m EXCEPT !.ret = TRUE]                \* discarded by the socket

\* queueMessage that lets the queue grow one past its limit
queueMessage_evictLate(m, msg) ==
  LET q == IF Len(m.messageQueue) > maxMessageQueueSize
           THEN Tail(m.messageQueue)
           ELSE m.messageQueue
  IN  [m EXCEPT !.messageQueue = Append(q, msg), !.ret = FALSE]

queueMessage(m, msg) ==
  LET q == IF Len(m.messageQueue) >= maxMessageQueueSize
           THEN Tail(m.messageQueue)
           ELSE m.messageQueue
  IN  [m EXCEPT !.messageQueue = Append(q, msg), !.ret = FALSE]

\* send() that tests for a socket object instead of an open socket
send_wsPresent(m, msg) ==
  IF m.isDestroyed
  THEN [m EXCEPT !.ret = FALSE]
  ELSE IF m.ws # 0
       THEN sendImmediate(m, msg)
       ELSE queueMessage(m, msg)

send(m, msg) ==
  IF m.isDestroyed
  THEN [m EXCEPT !.ret = FALSE]
  ELSE IF isConnected(m)
       THEN sendImmediate(m, msg)
       ELSE queueMessage(m, msg)

RECURSIVE sendAll(_, _)
sendAll(m, msgs) ==
  IF msgs = <<>> THEN m ELSE sendAll(send(m, Head(msgs)), Tail(msgs))

\* sendBatch returns the number of messages send() accepted.
RECURSIVE sendBatchCount(_, _)
sendBatchCount(m, msgs) ==
  IF m.isDestroyed \/ msgs = <<>>
  THEN 0
  ELSE (IF send(m, Head(msgs)).ret THEN 1 ELSE 0)
       + sendBatchCount(send(m, Head(msgs)), Tail(msgs))

sendBatch(m, msgs) ==
  IF m.isDestroyed THEN m ELSE sendAll(m, msgs)

Min(a, b) == IF a < b THEN a ELSE b

\* handleReconnect with the exponent taken after the increment
handleReconnect_expAfterIncrement(m) ==
  IF m.reconnectTimer \/ m.isDestroyed
  THEN m
  ELSE [m EXCEPT !.reconnectAttempts = @ + 1,
                 !.reconnectTimer = TRUE,
                 !.delay = Min(reconnectDelay * 2^(m.reconnectAttempts + 1),
                               maxReconnectDelay),
                 !.scheduled = @ + 1]

handleReconnect(m) ==
  IF m.reconnectTimer \/ m.isDestroyed
  THEN m
  ELSE [m EXCEPT !.reconnectAttempts = @ + 1,
                 !.reconnectTimer = TRUE,
                 !.delay = Min(reconnectDelay
                                 * 2^((m.reconnectAttempts + 1) - 1),
                               maxReconnectDelay),
                 !.scheduled = @ + 1]

\* connect() without the isDestroyed guard
connect_noDestroyedGuard(m, throws) ==
  IF isConnected(m)
  THEN m
  ELSE IF throws
       THEN handleReconnect(m)
       ELSE [m EXCEPT !.nsock = @ + 1,
                      !.socks[m.nsock + 1] = "CONNECTING",
                      !.ws = m.nsock + 1]

\* connect(); throws says that the WebSocket constructor throws
connect(m, throws) ==
  IF m.isDestroyed
  THEN m
  ELSE IF isConnected(m)
       THEN m
       ELSE IF throws
            THEN handleReconnect(m)
            ELSE [m EXCEPT !.nsock = @ + 1,
                           !.socks[m.nsock + 1] = "CONNECTING",
                           !.ws = m.nsock + 1]

disconnect(m) ==
  wsClose(cleanup([m EXCEPT !.isIntentionalClose = TRUE,
                            !.hbStale = (m.hbTimeouts > 0)]))

destroy(m) ==
  LET c == wsClose(cleanup([m EXCEPT !.isDestroyed = TRUE,
                                     !.hbStale = (m.hbTimeouts > 0)]))
  IN  [c EXCEPT !.ws = 0, !.messageQueue = <<>>]

startHeartbeat(m) ==
  IF m.heartbeatTimer THEN m ELSE [m EXCEPT !.heartbeatTimer = TRUE]

RECURSIVE sendImmediateAll(_, _)
sendImmediateAll(m, msgs) ==
  IF msgs = <<>>
  THEN m
  ELSE sendImmediateAll(sendImmediate(m, Head(msgs)), Tail(msgs))

\* processBatch that splices the newest batchSize messages off the queue
processBatch_newestFirst(m) ==
  LET n     == IF Len(m.messageQueue) < batchSize
               THEN Len(m.messageQueue) ELSE batchSize
      k     == Len(m.messageQueue) - n
      batch == SubSeq(m.messageQueue, k + 1, Len(m.messageQueue))
      rest  == SubSeq(m.messageQueue, 1, k)
      sent  == sendImmediateAll([m EXCEPT !.messageQueue = rest], batch)
  IN  [sent EXCEPT !.flushPending = (rest # <<>> /\ ~m.isDestroyed)]

\* One run of processBatch: the first batchSize queued messages are
\* spliced off and sent; the rest waits for the next animation frame.
processBatch(m) ==
  LET n     == IF Len(m.messageQueue) < batchSize
               THEN Len(m.messageQueue) ELSE batchSize
      batch == SubSeq(m.messageQueue, 1, n)
      rest  == SubSeq(m.messageQueue, n + 1, Len(m.messageQueue))
      sent  == sendImmediateAll([m EXCEPT !.messageQueue = rest], batch)
  IN  [sent EXCEPT !.flushPending = (rest # <<>> /\ ~m.isDestroyed)]

flushMessageQueue(m) ==
  IF m.messageQueue = <<>> THEN m ELSE processBatch(m)

\* ws.onopen up to the call of callbacks.onOpen
onopen(m) ==
  flushMessageQueue(
    startHeartbeat([m EXCEPT !.reconnectAttempts = 0,
                             !.isIntentionalClose = FALSE,
                             !.scheduled = 0,
                             !.reconnectFailed = FALSE]))

\* ws.onclose that still reconnects with the counter at the ceiling
onclose_atCeiling(m) ==
  LET c == cleanup(m)
  IN  IF ~c.isIntentionalClose /\ ~c.isDestroyed
         /\ c.reconnectAttempts <= maxReconnectAttempts
      THEN handleReconnect(c)
      ELSE IF c.reconnectAttempts >= maxReconnectAttempts
           THEN [c EXCEPT !.failed = TRUE, !.reconnectFailed = TRUE]
           ELSE c

\* ws.onclose up to the call of callbacks.onClose; failed records that
\* callbacks.onReconnectFailed was invoked.
onclose(m) ==
  LET c == cleanup(m)
  IN  IF ~c.isIntentionalClose /\ ~c.isDestroyed
         /\ c.reconnectAttempts < maxReconnectAttempts
      THEN handleReconnect(c)
      ELSE IF c.reconnectAttempts >= maxReconnectAttempts
           THEN [c EXCEPT !.failed = TRUE, !.reconnectFailed = TRUE]
           ELSE c

\* the callback of the reconnect timer
reconnectTimerFired(m, throws) ==
  LET t == [m EXCEPT !.reconnectTimer = FALSE, !.delay = 0]
  IN  IF ~t.isDestroyed THEN connect(t, throws) ELSE t

\* the callback of the heartbeat interval
heartbeatTick(m) ==
  IF isConnected(m) /\ ~m.isDestroyed
  THEN [send(m, [type |-> "ping", id |-> 0]) EXCEPT
          !.hbTimeouts = @ + 1, !.hbSock = m.ws, !.hbAnswered = FALSE]
  ELSE m

\* the callback of the heartbeat-reply timeout
heartbeatTimeoutFired(m) ==
  LET t == [m EXCEPT !.hbTimeouts = @ - 1, !.hbSock = 0,
                     !.hbStale = FALSE, !.hbAnswered = FALSE]
  IN  IF isConnected(t) /\ ~t.isDestroyed THEN wsClose(t) ELSE t

\* -------------------------------------------------- initial manager state
InitMgr ==
  /\ ws = 0
  /\ reconnectAttempts = 0
  /\ heartbeatTimer = FALSE
  /\ reconnectTimer = FALSE
  /\ isIntentionalClose = FALSE
  /\ messageQueue = <<>>
  /\ isDestroyed = FALSE
  /\ socks = [s \in SockIds |-> "NONE"]
  /\ nsock = 0
  /\ wire = <<>>
  /\ hbTimeouts = 0
  /\ flushPending = FALSE
  /\ delay = 0
  /\ hbSock = 0
  /\ scheduled = 0
  /\ reconnectFailed = FALSE
  /\ hbStale = FALSE
  /\ hbAnswered = FALSE

InitCaller ==
  /\ nextMsg = 0
  /\ lastRet = FALSE
  /\ lastCall = "none"
  /\ disconnected = FALSE

Utts == 1..(MaxUtt + 1)

NoPending == [id |-> 0, timestamp |-> 0]

InitApp ==
  /\ wsManagerRef = FALSE
  /\ vadEffect = "none"
  /\ vadReady = FALSE
  /\ vadSpeaking = FALSE
  /\ pendingRequestRef = NoPending
  /\ isProcessingRef = FALSE
  /\ conversationActiveRef = FALSE
  /\ activeAudioElementRef = 0
  /\ audioState = "none"
  /\ isPlayingRef = FALSE
  /\ isAudioLoadingRef = FALSE
  /\ isPlaying = FALSE
  /\ retryTimers = {}
  /\ procTimers = 0
  /\ checkTimers = 0
  /\ interruptTimers = 0
  /\ now = 0
  /\ nextUtt = 0
  /\ inflight = [s \in SockIds |-> [u \in Utts |-> 0]]
  /\ txByOpen = [s \in SockIds |-> 0]
  /\ played = [u \in Utts |-> 0]
  /\ acked = [u \in Utts |-> 0]
  /\ expired = {}

NoError == "null"

Plays == 1..(MaxPlays + 1)

InitAux ==
  /\ lastSendTime = 0
  /\ pendingMessages = <<>>
  /\ throttleTimer = FALSE
  /\ timerDue = 0
  /\ handed = <<>>
  /\ dropped = {}
  /\ clock = throttleInterval
  /\ value = "idle"
  /\ error = NoError
  /\ lastEvent = "none"
  /\ prevValue = "idle"
  /\ debounced = "none"
  /\ watchdog = "none"
  /\ listenTimers = 0
  /\ resumeTimers = 0
  /\ elemState = [u \in Utts |-> "none"]
  /\ loadTimers = {}
  /\ playTimers = {}
  /\ awaiting = {}
  /\ cancelled = {}
  /\ began = {}
  /\ bargeIn = FALSE
  /\ activePlayer = 0
  /\ isSpeaking = FALSE
  /\ queue = <<>>
  /\ hookIsPlaying = FALSE
  /\ player = [p \in Plays |-> "none"]
  /\ onEndCalls = [p \in Plays |-> 0]
  /\ onErrorCalls = [p \in Plays |-> 0]
  /\ nplay = 0

\* ------------------------------------------------ SpecWS: manager actions
AppMsg(n) == [type |-> "msg", id |-> n]

\* The caller may run into a throwing constructor until the attempt
\* counter has passed its ceiling by MaxOverrun.
ThrowAllowed == reconnectAttempts < maxReconnectAttempts + MaxOverrun

Connect(throws) ==
  /\ nsock < MaxSockets
  /\ throws => ThrowAllowed
  /\ Commit(connect([M EXCEPT !.reconnectFailed = FALSE], throws))
  /\ disconnected' = FALSE
  /\ lastCall' = "connect"
  /\ UNCHANGED <<nextMsg, lastRet, appVars>>
  /\ UNCHANGED auxVars

Disconnect ==
  /\ Commit(disconnect(M))
  /\ disconnected' = TRUE
  /\ lastCall' = "disconnect"
  /\ UNCHANGED <<nextMsg, lastRet, appVars>>
  /\ UNCHANGED auxVars

Destroy ==
  /\ Commit(destroy(M))
  /\ lastCall' = "destroy"
  /\ UNCHANGED <<nextMsg, lastRet, disconnected, appVars>>
  /\ UNCHANGED auxVars

Send ==
  /\ nextMsg < MaxMsgs
  /\ LET r == send(M, AppMsg(nextMsg + 1))
     IN  Commit(r) /\ lastRet' = r.ret
  /\ nextMsg' = nextMsg + 1
  /\ lastCall' = "send"
  /\ UNCHANGED <<disconnected, appVars>>
  /\ UNCHANGED auxVars

SendBatch ==
  /\ nextMsg + 2 <= MaxMsgs
  /\ LET msgs == <<AppMsg(nextMsg + 1), AppMsg(nextMsg + 2)>>
     IN  /\ Commit(sendBatch(M, msgs))
         /\ lastRet' = (sendBatchCount(M, msgs) > 0)
  /\ nextMsg' = nextMsg + 2
  /\ lastCall' = "sendBatch"
  /\ UNCHANGED <<disconnected, appVars>>
  /\ UNCHANGED auxVars

\* the socket finishes connecting
SockOpen(s) ==
  /\ socks[s] = "CONNECTING"
  /\ Commit(onopen([M EXCEPT !.socks[s] = "OPEN"]))
  /\ UNCHANGED <<callerVars, appVars>>
  /\ UNCHANGED auxVars

\* the socket closes: a failed connection attempt, a drop of an open
\* connection or the end of the closing handshake
SockClose(s) ==
  /\ socks[s] \in {"CONNECTING", "OPEN", "CLOSING"}
  /\ Commit(onclose(closed(M, s)))
  /\ UNCHANGED <<callerVars, appVars>>
  /\ UNCHANGED auxVars

ReconnectTimerFire(throws) ==
  /\ reconnectTimer
  /\ nsock < MaxSockets
  /\ throws => ThrowAllowed
  /\ Commit(reconnectTimerFired(M, throws))
  /\ UNCHANGED <<callerVars, appVars>>
  /\ UNCHANGED auxVars

\* The interval ticks; a reply timeout armed by an earlier tick has run out
\* by then, heartbeatTimeout being shorter than heartbeatInterval.
HeartbeatTick ==
  /\ heartbeatTimer
  /\ hbTimeouts <= heartbeatTimeout \div heartbeatInterval
  /\ Commit(heartbeatTick(M))
  /\ UNCHANGED <<callerVars, appVars>>
  /\ UNCHANGED auxVars

HeartbeatTimeout ==
  /\ hbTimeouts > 0
  /\ Commit(heartbeatTimeoutFired(M))
  /\ UNCHANGED <<callerVars, appVars>>
  /\ UNCHANGED auxVars

\* The server answers the outstanding ping on the socket that carried it:
\* ws.onmessage parses the pong and hands it to callbacks.onMessage.
PongArrives(s) ==
  /\ hbTimeouts > 0 /\ hbSock = s /\ socks[s] = "OPEN" /\ ~hbAnswered
  /\ Commit([M EXCEPT !.hbAnswered = TRUE])
  /\ UNCHANGED <<callerVars, appVars>>
  /\ UNCHANGED auxVars

NextWS ==
  \/ Connect(FALSE)
  \/ Disconnect
  \/ Destroy
  \/ Send
  \/ SendBatch
  \/ \E s \in SockIds : SockOpen(s)
  \/ \E s \in SockIds : SockClose(s)
  \/ ReconnectTimerFire(FALSE)
  \/ HeartbeatTick
  \/ HeartbeatTimeout

InitWS == InitMgr /\ InitCaller /\ InitApp /\ InitAux

SpecWS == InitWS /\ [][NextWS]_vars

\* ------------------------------------- SpecRC: connection life cycle only
\* The caller connects, disconnects and destroys but sends nothing; the
\* WebSocket constructor may throw and the server may answer pings.
NextRC ==
  \/ \E throws \in BOOLEAN : Connect(throws)
  \/ Disconnect
  \/ Destroy
  \/ \E s \in SockIds : SockOpen(s)
  \/ \E s \in SockIds : SockClose(s)
  \/ \E throws \in BOOLEAN : ReconnectTimerFire(throws)
  \/ HeartbeatTick
  \/ HeartbeatTimeout
  \/ \E s \in SockIds : PongArrives(s)

InitRC == InitMgr /\ InitCaller /\ InitApp /\ InitAux

SpecRC == InitRC /\ [][NextRC]_vars

\* ---------------------------------------------------- voiceAssistantMachine
\* the transitions of the machine at the head of voiceAssistantMachine.ts
Target_firstMachine(p, ev) ==
  CASE p = "idle" /\ ev = "START" -> "listening"
    [] p = "listening" /\ ev = "SPEECH_END" -> "processing"
    [] p = "listening" /\ ev = "INTERRUPT" -> "interrupted"
    [] p = "processing" /\ ev = "RESPONSE_READY" -> "responding"
    [] p = "processing" /\ ev = "ERROR" -> "error"
    [] p = "responding" /\ ev = "END" -> "idle"
    [] p = "responding" /\ ev = "REPEAT" -> "listening"
    [] p = "interrupted" /\ ev = "RESUME" -> "listening"
    [] p = "interrupted" /\ ev = "CANCEL" -> "idle"
    [] p = "error" /\ ev = "RETRY" -> "listening"
    [] p = "error" /\ ev = "CANCEL" -> "idle"
    [] OTHER -> p

\* The state the machine is in after event ev arrives in state p; AFTER is
\* the delayed transition of starting.
Target(p, ev) ==
  CASE p = "idle" /\ ev = "START" -> "starting"
    [] p = "idle" /\ ev = "RESPONSE_READY" -> "responding"
    [] p = "starting" /\ ev = "READY" -> "ready"
    [] p = "starting" /\ ev = "ERROR" -> "error"
    [] p = "starting" /\ ev = "AFTER" -> "error"
    [] p = "ready" /\ ev \in {"LISTEN", "SPEECH_START"} -> "listening"
    [] p = "ready" /\ ev = "RESPONSE_READY" -> "responding"
    [] p = "ready" /\ ev = "ERROR" -> "error"
    [] p = "listening" /\ ev = "SPEECH_END" -> "processing"
    [] p = "listening" /\ ev = "RESPONSE_READY" -> "responding"
    [] p = "listening" /\ ev = "INTERRUPT" -> "interrupted"
    [] p = "listening" /\ ev = "CANCEL" -> "idle"
    [] p = "listening" /\ ev = "ERROR" -> "error"
    [] p = "processing" /\ ev = "RESPONSE_READY" -> "responding"
    [] p = "processing" /\ ev = "READY" -> "ready"
    [] p = "processing" /\ ev = "LISTEN" -> "listening"
    [] p = "processing" /\ ev = "INTERRUPT" -> "interrupted"
    [] p = "processing" /\ ev = "ERROR" -> "error"
    [] p = "responding" /\ ev = "END" -> "ready"
    [] p = "responding" /\ ev = "LISTEN" -> "listening"
    [] p = "responding" /\ ev = "INTERRUPT" -> "interrupted"
    [] p = "responding" /\ ev = "ERROR" -> "error"
    [] p = "interrupted" /\ ev = "RESUME" -> "listening"
    [] p = "interrupted" /\ ev = "CANCEL" -> "idle"
    [] p = "interrupted" /\ ev = "ERROR" -> "error"
    [] p = "error" /\ ev = "RETRY" -> "listening"
    [] p = "error" /\ ev = "READY" -> "ready"
    [] p = "error" /\ ev = "CANCEL" -> "idle"
    [] p = "error" /\ ev = "START" -> "starting"
    [] OTHER -> p

Events ==
  {"START", "READY", "LISTEN", "SPEECH_START", "SPEECH_END",
   "RESPONSE_READY", "END", "REPEAT", "INTERRUPT", "RESUME", "CANCEL",
   "RETRY", "CLEAR_ERROR", "ERROR"}

\* ev selects a transition with a target in state p
HasTarget(p, ev) ==
  \/ Target(p, ev) # p
  \/ p = "listening" /\ ev = "SPEECH_START"

\* context.error after the actions of the transition that ev selects in p
TransitionAssign(p, ev, e) ==
  CASE p = "starting" /\ ev = "AFTER" -> "Failed to start: Connection timeout"
    [] ev = "ERROR" /\ Target(p, ev) = "error" /\ p # "error"
         -> "An error occurred"
    [] ev = "CLEAR_ERROR" /\ p # "starting" -> NoError
    [] OTHER -> e

\* entry actions that leave context.error alone
EntryAssign_keepError(s, e) == e

\* context.error after the entry actions of state s
EntryAssign(s, e) == NoError

\* The machine in state p with context.error = e receives ev: the actions
\* of the transition run first, then the entry actions of its target.
MachineStep(p, e, ev) ==
  IF HasTarget(p, ev)
  THEN [value |-> Target(p, ev),
        error |-> EntryAssign(Target(p, ev), TransitionAssign(p, ev, e))]
  ELSE [value |-> p, error |-> TransitionAssign(p, ev, e)]

\* The VAD callbacks read state from the render that mounted their effect,
\* which follows the READY and LISTEN events of onOpen.
stateAtMount == Target(Target(Target("idle", "START"), "READY"), "LISTEN")

\* ------------------------------------------------------------ VADVoiceClient
ChunkMsg(u) == [type |-> "audio_chunk", id |-> u]
EndMsg(u) == [type |-> "end_audio", id |-> u]
InitMsg == [type |-> "init", id |-> 0]
InterruptMsg == [type |-> "interrupt", id |-> 0]

\* how often utterance u has been put on the wire
TxCount(w, u) == Cardinality({i \in 1..Len(w) : w[i] = EndMsg(u)})

\* The requests that went out while the manager moved from wire w to wire
\* w2 travel on socket s and wait there for their reply.
Sent(fl, s, w, w2) ==
  IF s = 0 \/ w2 = w
  THEN fl
  ELSE [fl EXCEPT ![s] =
          [u \in Utts |-> fl[s][u] + TxCount(w2, u) - TxCount(w, u)]]

isWebSocketConnected == wsManagerRef /\ isConnected(M)

\* clearRequestTimeout keeping the tracker
clearRequestTimeout_keepPending(p) == p

clearRequestTimeout(p) == NoPending

\* the two messages of one utterance
sendUtterance(m, u) == send(send(m, ChunkMsg(u)), EndMsg(u))

\* retryPendingRequest without the age check
retryPendingRequest_noAgeCheck(m, p, t) ==
  IF p.id = 0
  THEN [m |-> m, pending |-> p]
  ELSE [m |-> sendUtterance(m, p.id), pending |-> p]

\* retryPendingRequest on manager m with tracker p at time t
retryPendingRequest(m, p, t) ==
  IF p.id = 0
  THEN [m |-> m, pending |-> p]
  ELSE IF t - p.timestamp > maxPendingAge
       THEN [m |-> m, pending |-> NoPending]
       ELSE [m |-> sendUtterance(m, p.id), pending |-> p]

\* reconnectWebSocket as the VAD callbacks see it: their closure holds
\* isReconnecting = false, and a mounted effect implies a manager.
reconnectWebSocket(m) ==
  IF isConnected(m) THEN m ELSE connect(m, FALSE)

\* -------------------------------------------------- Spec: client handlers
CloseCodes == {1000, 1006}

\* The model follows one session: from Start until the cleanup of the VAD
\* effect has destroyed the manager and the VAD of that session.
SessionAlive == vadEffect # "cleaned"

\* The user presses Start once: the session the model follows.
StartVoiceAssistant ==
  /\ ~wsManagerRef /\ vadEffect = "none" /\ nsock = 0
  /\ pendingRequestRef' = clearRequestTimeout(pendingRequestRef)
  /\ wsManagerRef' = TRUE
  /\ Commit(connect(M, FALSE))
  /\ UNCHANGED <<vadEffect, vadReady, vadSpeaking, isProcessingRef,
                 conversationActiveRef>>
  /\ UNCHANGED <<callerVars, audioVars, timerVars, envVars, histVars>>
  /\ UNCHANGED auxVars

\* ws.onopen of socket s followed by the onOpen callback.  The first
\* setIsStarted(true) mounts the VAD effect.
ClientSockOpen(s) ==
  /\ SessionAlive
  /\ socks[s] = "CONNECTING"
  /\ LET opened == onopen([M EXCEPT !.socks[s] = "OPEN"])
         p      == pendingRequestRef
     IN  /\ Commit(send(opened, InitMsg))
         /\ retryTimers' = IF p.id # 0 THEN retryTimers \cup {s}
                           ELSE retryTimers
         /\ vadEffect' = IF vadEffect = "none" THEN "mounted" ELSE vadEffect
         /\ txByOpen' =
              IF p.id # 0
              THEN [txByOpen EXCEPT
                      ![s] = TxCount(opened.wire, p.id) - TxCount(wire, p.id)]
              ELSE txByOpen
         /\ inflight' = Sent(inflight, opened.ws, wire, opened.wire)
  /\ UNCHANGED <<wsManagerRef, vadReady, vadSpeaking, pendingRequestRef,
                 isProcessingRef, conversationActiveRef>>
  /\ UNCHANGED <<procTimers, checkTimers, interruptTimers, now, nextUtt,
                 played, acked, expired>>
  /\ UNCHANGED <<callerVars, audioVars>>
  /\ UNCHANGED auxVars

\* ws.onclose of socket s followed by the onClose callback.  When the VAD
\* effect is mounted, setIsStarted(false) runs its cleanup, which destroys
\* the manager and the VAD.
ClientSockClose(s, code) ==
  /\ SessionAlive
  /\ socks[s] \in {"CONNECTING", "OPEN", "CLOSING"}
  /\ LET after   == onclose(closed(M, s))
         unmount == vadEffect = "mounted"
     IN  /\ Commit(IF unmount THEN destroy(after) ELSE after)
         /\ vadEffect' = IF unmount THEN "cleaned" ELSE vadEffect
         /\ wsManagerRef' = IF unmount THEN FALSE ELSE wsManagerRef
         /\ vadReady' = IF unmount THEN FALSE ELSE vadReady
         /\ vadSpeaking' = IF unmount THEN FALSE ELSE vadSpeaking
         /\ isProcessingRef' = IF unmount THEN FALSE ELSE isProcessingRef
         /\ activeAudioElementRef' =
              IF unmount THEN 0 ELSE activeAudioElementRef
         /\ audioState' = IF unmount THEN "none" ELSE audioState
  /\ inflight' = [inflight EXCEPT ![s] = [u \in Utts |-> 0]]
  /\ UNCHANGED <<pendingRequestRef, conversationActiveRef, isPlayingRef,
                 isAudioLoadingRef, isPlaying>>
  /\ UNCHANGED <<callerVars, timerVars, now, nextUtt, histVars>>
  /\ UNCHANGED auxVars

\* MicVAD.new resolves inside the mounted effect
VADInit ==
  /\ vadEffect = "mounted" /\ ~vadReady
  /\ vadReady' = TRUE
  /\ UNCHANGED <<wsManagerRef, vadEffect, vadSpeaking, pendingRequestRef,
                 isProcessingRef, conversationActiveRef>>
  /\ UNCHANGED <<mgrVars, callerVars, audioVars, timerVars, envVars, histVars>>
  /\ UNCHANGED auxVars

\* handleInterruption; the 500 ms window after the previous interruption
\* is open for as long as the 500 ms timer that interruption armed.
handleInterruption ==
  IF interruptTimers > 0
  THEN UNCHANGED <<mgrVars, isProcessingRef, conversationActiveRef,
                   audioState, isPlaying, interruptTimers>>
  ELSE /\ isProcessingRef' = TRUE
       /\ conversationActiveRef' = FALSE
       /\ audioState' = IF activeAudioElementRef # 0 THEN "stopped"
                        ELSE audioState
       /\ isPlaying' = IF activeAudioElementRef # 0 THEN FALSE ELSE isPlaying
       /\ Commit(IF isWebSocketConnected THEN send(M, InterruptMsg) ELSE M)
       /\ interruptTimers' = interruptTimers + 1

OnSpeechStart ==
  /\ vadReady /\ ~vadSpeaking /\ nextUtt < MaxUtt
  /\ vadSpeaking' = TRUE
  /\ IF isProcessingRef
     THEN UNCHANGED <<mgrVars, pendingRequestRef, isProcessingRef,
                      conversationActiveRef, audioState, isPlaying,
                      interruptTimers>>
     ELSE /\ pendingRequestRef' = clearRequestTimeout(pendingRequestRef)
          /\ IF isPlaying /\ activeAudioElementRef # 0
             THEN handleInterruption
             ELSE IF stateAtMount = "listening" \/ conversationActiveRef
                  THEN UNCHANGED <<mgrVars, isProcessingRef,
                                   conversationActiveRef, audioState,
                                   isPlaying, interruptTimers>>
                  ELSE /\ conversationActiveRef' = TRUE
                       /\ audioState' = IF activeAudioElementRef # 0
                                        THEN "stopped" ELSE audioState
                       /\ UNCHANGED <<mgrVars, isProcessingRef, isPlaying,
                                      interruptTimers>>
  /\ UNCHANGED <<wsManagerRef, vadEffect, vadReady, activeAudioElementRef,
                 isPlayingRef, isAudioLoadingRef>>
  /\ UNCHANGED <<retryTimers, procTimers, checkTimers>>
  /\ UNCHANGED <<callerVars, envVars, histVars>>
  /\ UNCHANGED auxVars

\* onSpeechEnd with the non-empty audio of utterance nextUtt + 1
OnSpeechEnd ==
  /\ vadReady /\ vadSpeaking
  /\ vadSpeaking' = FALSE
  /\ nextUtt' = nextUtt + 1
  /\ LET u == nextUtt + 1
     IN  IF isProcessingRef
         THEN UNCHANGED <<mgrVars, pendingRequestRef, isProcessingRef,
                          conversationActiveRef, procTimers, checkTimers,
                          inflight>>
         ELSE /\ conversationActiveRef' = FALSE
              /\ procTimers' = procTimers + 1
              /\ IF ~isWebSocketConnected
                 THEN IF isPlayingRef \/ isAudioLoadingRef
                      THEN /\ isProcessingRef' = TRUE
                           /\ UNCHANGED <<mgrVars, pendingRequestRef,
                                          checkTimers, inflight>>
                      ELSE /\ nsock < MaxSockets
                           /\ pendingRequestRef' =
                                [id |-> u, timestamp |-> now]
                           /\ isProcessingRef' = FALSE
                           /\ Commit(reconnectWebSocket(M))
                           /\ checkTimers' = checkTimers + 1
                           /\ UNCHANGED inflight
                 ELSE /\ pendingRequestRef' = [id |-> u, timestamp |-> now]
                      /\ isProcessingRef' = TRUE
                      /\ Commit(sendUtterance(M, u))
                      /\ inflight' = Sent(inflight, ws, wire,
                                          sendUtterance(M, u).wire)
                      /\ UNCHANGED checkTimers
  /\ UNCHANGED <<wsManagerRef, vadEffect, vadReady>>
  /\ UNCHANGED <<retryTimers, interruptTimers, now>>
  /\ UNCHANGED <<callerVars, audioVars, histVars>>
  /\ UNCHANGED auxVars

OnVADMisfire ==
  /\ vadReady /\ vadSpeaking
  /\ vadSpeaking' = FALSE
  /\ UNCHANGED <<wsManagerRef, vadEffect, vadReady, pendingRequestRef,
                 isProcessingRef, conversationActiveRef>>
  /\ UNCHANGED <<mgrVars, callerVars, audioVars, timerVars, envVars, histVars>>
  /\ UNCHANGED auxVars

\* the 30 s timer armed by onSpeechEnd
ProcessingTimeoutFire ==
  /\ SessionAlive
  /\ procTimers > 0
  /\ procTimers' = procTimers - 1
  /\ IF isProcessingRef
     THEN /\ isProcessingRef' = FALSE
          /\ conversationActiveRef' = FALSE
     ELSE UNCHANGED <<isProcessingRef, conversationActiveRef>>
  /\ UNCHANGED <<wsManagerRef, vadEffect, vadReady, vadSpeaking,
                 pendingRequestRef>>
  /\ UNCHANGED <<retryTimers, checkTimers, interruptTimers>>
  /\ UNCHANGED <<mgrVars, callerVars, audioVars, envVars, histVars>>
  /\ UNCHANGED auxVars

\* the 5 s timer armed by the disconnected path of onSpeechEnd
ReconnectCheckFire ==
  /\ SessionAlive
  /\ checkTimers > 0
  /\ checkTimers' = checkTimers - 1
  /\ IF ~isWebSocketConnected
     THEN /\ isProcessingRef' = FALSE
          /\ conversationActiveRef' = FALSE
          /\ pendingRequestRef' = NoPending
     ELSE UNCHANGED <<isProcessingRef, conversationActiveRef,
                      pendingRequestRef>>
  /\ UNCHANGED <<wsManagerRef, vadEffect, vadReady, vadSpeaking>>
  /\ UNCHANGED <<retryTimers, procTimers, interruptTimers>>
  /\ UNCHANGED <<mgrVars, callerVars, audioVars, envVars, histVars>>
  /\ UNCHANGED auxVars

\* the 1 s timer armed by the onOpen of socket s runs retryPendingRequest;
\* without a manager wsManagerRef.current!.send throws and the catch
\* clears the tracker.
RetryTimerFire(s) ==
  /\ SessionAlive
  /\ s \in retryTimers
  /\ retryTimers' = retryTimers \ {s}
  /\ LET p == pendingRequestRef
         r == retryPendingRequest(M, p, now)
     IN  /\ Commit(r.m)
         /\ pendingRequestRef' =
              IF wsManagerRef THEN r.pending ELSE NoPending
         /\ expired' = IF p.id # 0 /\ now - p.timestamp > maxPendingAge
                       THEN expired \cup {p.id} ELSE expired
         /\ txByOpen' =
              IF p.id # 0
              THEN [txByOpen EXCEPT
                      ![s] = @ + TxCount(r.m.wire, p.id) - TxCount(wire, p.id)]
              ELSE txByOpen
         /\ inflight' = Sent(inflight, ws, wire, r.m.wire)
  /\ UNCHANGED <<wsManagerRef, vadEffect, vadReady, vadSpeaking,
                 isProcessingRef, conversationActiveRef>>
  /\ UNCHANGED <<procTimers, checkTimers, interruptTimers, now, nextUtt,
                 played, acked>>
  /\ UNCHANGED <<callerVars, audioVars>>
  /\ UNCHANGED auxVars

\* The server answers a request for utterance u on socket s with a
\* tts_stream_url message carrying a valid URL: handleWebSocketMessage.
ServerReply(s, u) ==
  /\ SessionAlive
  /\ socks[s] = "OPEN" /\ inflight[s][u] > 0
  /\ inflight' = [inflight EXCEPT ![s][u] = @ - 1]
  /\ acked' = IF pendingRequestRef.id = u THEN [acked EXCEPT ![u] = s]
              ELSE acked
  /\ pendingRequestRef' = clearRequestTimeout(pendingRequestRef)
  /\ activeAudioElementRef' = u
  /\ audioState' = "loading"
  /\ isProcessingRef' = FALSE
  /\ isPlayingRef' = TRUE
  /\ isAudioLoadingRef' = FALSE
  /\ isPlaying' = FALSE
  /\ played' = [played EXCEPT ![u] = @ + 1]
  /\ UNCHANGED <<wsManagerRef, vadEffect, vadReady, vadSpeaking,
                 conversationActiveRef>>
  /\ UNCHANGED <<mgrVars, callerVars, timerVars, now, nextUtt, txByOpen,
                 expired>>
  /\ UNCHANGED auxVars

\* the element loads and starts to play: onloadstart, oncanplay, onplay
AudioPlay ==
  /\ activeAudioElementRef # 0 /\ audioState = "loading"
  /\ audioState' = "playing"
  /\ isAudioLoadingRef' = TRUE
  /\ isPlaying' = TRUE
  /\ UNCHANGED <<activeAudioElementRef, isPlayingRef>>
  /\ UNCHANGED <<mgrVars, callerVars, clientVars, timerVars, envVars,
                 histVars>>
  /\ UNCHANGED auxVars

\* the element plays to its end: handleAudioEnded
AudioEnded ==
  /\ activeAudioElementRef # 0 /\ audioState = "playing"
  /\ isPlayingRef' = FALSE
  /\ isAudioLoadingRef' = FALSE
  /\ isPlaying' = FALSE
  /\ isProcessingRef' = FALSE
  /\ conversationActiveRef' = FALSE
  /\ pendingRequestRef' = clearRequestTimeout(pendingRequestRef)
  /\ activeAudioElementRef' = 0
  /\ audioState' = "none"
  /\ UNCHANGED <<wsManagerRef, vadEffect, vadReady, vadSpeaking>>
  /\ UNCHANGED <<mgrVars, callerVars, timerVars, envVars, histVars>>
  /\ UNCHANGED auxVars

\* the 500 ms timer armed by handleInterruption
InterruptTimerFire ==
  /\ SessionAlive
  /\ interruptTimers > 0
  /\ interruptTimers' = interruptTimers - 1
  /\ isProcessingRef' = FALSE
  /\ UNCHANGED <<wsManagerRef, vadEffect, vadReady, vadSpeaking,
                 pendingRequestRef, conversationActiveRef>>
  /\ UNCHANGED <<retryTimers, procTimers, checkTimers>>
  /\ UNCHANGED <<mgrVars, callerVars, audioVars, envVars, histVars>>
  /\ UNCHANGED auxVars

\* Time passes.  Date.now() is read only to stamp a request and to take its
\* age, so the clock is advanced only while a request is tracked.
Tick ==
  /\ SessionAlive
  /\ now < MaxTicks * TickMs
  /\ pendingRequestRef.id # 0
  /\ now' = now + TickMs
  /\ UNCHANGED <<nextUtt, inflight>>
  /\ UNCHANGED <<mgrVars, callerVars, clientVars, audioVars, timerVars,
                 histVars>>
  /\ UNCHANGED auxVars

Next ==
  \/ StartVoiceAssistant
  \/ \E s \in SockIds : ClientSockOpen(s)
  \/ \E s \in SockIds : \E code \in CloseCodes : ClientSockClose(s, code)
  \/ ReconnectTimerFire(FALSE)
  \/ HeartbeatTick
  \/ HeartbeatTimeout
  \/ VADInit
  \/ OnSpeechStart
  \/ OnSpeechEnd
  \/ OnVADMisfire
  \/ ProcessingTimeoutFire
  \/ ReconnectCheckFire
  \/ \E s \in SockIds : RetryTimerFire(s)
  \/ \E s \in SockIds : \E u \in Utts : ServerReply(s, u)
  \/ AudioPlay
  \/ AudioEnded
  \/ InterruptTimerFire
  \/ Tick

Init == InitMgr /\ InitCaller /\ InitApp /\ InitAux

Spec == Init /\ [][Next]_vars

\* ------------------------------------------ SpecQ: the outbound queue
\* The caller submits utterances, an audio_chunk followed by its end_audio,
\* only while the manager is not connected, and connects: up to MaxSubmit
\* utterances before its first connect(), and no more once MaxLate have
\* been submitted after that.  Sockets open and close, the reconnect timer
\* fires and the queue is flushed in batches, one batch per animation frame.

\* the messages of q that follow its n oldest
DropOldest(q, n) == SubSeq(q, n + 1, Len(q))

Submit ==
  /\ nextMsg < (IF nsock = 0 THEN MaxSubmit ELSE MaxLate)
  /\ ~isConnected(M)
  /\ LET r == sendUtterance(M, nextMsg + 1)
     IN  Commit(r) /\ lastRet' = r.ret
  /\ nextMsg' = nextMsg + 1
  /\ lastCall' = "submit"
  /\ UNCHANGED <<disconnected, appVars>>
  /\ UNCHANGED auxVars

\* the requestAnimationFrame callback armed by processBatch
FlushBatch ==
  /\ flushPending
  /\ Commit(processBatch(M))
  /\ UNCHANGED <<callerVars, appVars>>
  /\ UNCHANGED auxVars

NextQ ==
  \/ Connect(FALSE)
  \/ Submit
  \/ \E s \in SockIds : SockOpen(s)
  \/ \E s \in SockIds : SockClose(s)
  \/ ReconnectTimerFire(FALSE)
  \/ FlushBatch

InitQ == InitMgr /\ InitCaller /\ InitApp /\ InitAux

SpecQ == InitQ /\ [][NextQ]_vars

\* ------------------------------- SpecFlush: sends during a flush
\* SpecQ with the onOpen callback of the client, which sends init as soon
\* as ws.onopen has flushed the first batch of the queue.
OpenInit(s) ==
  /\ socks[s] = "CONNECTING"
  /\ Commit(send(onopen([M EXCEPT !.socks[s] = "OPEN"]), InitMsg))
  /\ UNCHANGED <<callerVars, appVars>>
  /\ UNCHANGED auxVars

NextFlush ==
  \/ Connect(FALSE)
  \/ Submit
  \/ \E s \in SockIds : OpenInit(s)
  \/ \E s \in SockIds : SockClose(s)
  \/ ReconnectTimerFire(FALSE)
  \/ FlushBatch

InitFlush == InitMgr /\ InitCaller /\ InitApp /\ InitAux

SpecFlush == InitFlush /\ [][NextFlush]_vars

\* ------------------------------------------ SpecThrottle: MessageThrottler
\* One MessageThrottler whose sendFn accepts every message.  A timer runs
\* its callback at or after the time it is due; send() may be called at
\* any time, also in the task that runs just before a due callback.
TH ==
  [lastSendTime |-> lastSendTime, pendingMessages |-> pendingMessages,
   throttleTimer |-> throttleTimer, timerDue |-> timerDue,
   handed |-> handed, dropped |-> dropped, ret |-> FALSE]

CommitTh(th) ==
  /\ lastSendTime' = th.lastSendTime
  /\ pendingMessages' = th.pendingMessages
  /\ throttleTimer' = th.throttleTimer
  /\ timerDue' = th.timerDue
  /\ handed' = th.handed
  /\ dropped' = th.dropped

\* MessageThrottler.send at time t
throttlerSend(th, msg, t) ==
  IF t - th.lastSendTime >= throttleInterval
  THEN [th EXCEPT !.lastSendTime = t,
                  !.handed = Append(@, msg),
                  !.ret = TRUE]
  ELSE LET queued == [th EXCEPT !.pendingMessages = Append(@, msg),
                                !.ret = FALSE]
       IN  IF ~th.throttleTimer
           THEN [queued EXCEPT
                   !.throttleTimer = TRUE,
                   !.timerDue = t + (throttleInterval
                                       - (t - th.lastSendTime))]
           ELSE queued

\* MessageThrottler.flushPending
throttlerFlushPending(th) ==
  [th EXCEPT !.throttleTimer = FALSE,
             !.handed = @ \o th.pendingMessages,
             !.pendingMessages = <<>>]

\* MessageThrottler.destroy
throttlerDestroy(th) ==
  [th EXCEPT !.throttleTimer = FALSE,
             !.pendingMessages = <<>>,
             !.dropped = @ \cup {th.pendingMessages[i].id :
                                   i \in 1..Len(th.pendingMessages)}]

ThrottleStep == throttleInterval \div 2

ThSend ==
  /\ nextMsg < MaxThMsgs
  /\ LET r == throttlerSend(TH, AppMsg(nextMsg + 1), clock)
     IN  CommitTh(r) /\ lastRet' = r.ret
  /\ nextMsg' = nextMsg + 1
  /\ UNCHANGED <<mgrVars, lastCall, disconnected, appVars, clock, uiVars>>
  /\ UNCHANGED <<convVars, playerVars>>

ThTimerFire ==
  /\ throttleTimer /\ clock >= timerDue
  /\ CommitTh(throttlerFlushPending(TH))
  /\ UNCHANGED <<mgrVars, callerVars, appVars, clock, uiVars>>
  /\ UNCHANGED <<convVars, playerVars>>

ThDestroy ==
  /\ CommitTh(throttlerDestroy(TH))
  /\ UNCHANGED <<mgrVars, callerVars, appVars, clock, uiVars>>
  /\ UNCHANGED <<convVars, playerVars>>

ThTick ==
  /\ clock < throttleInterval + MaxThTicks * ThrottleStep
  /\ clock' = clock + ThrottleStep
  /\ UNCHANGED <<mgrVars, callerVars, appVars, uiVars>>
  /\ UNCHANGED <<convVars, playerVars>>
  /\ UNCHANGED <<lastSendTime, pendingMessages, throttleTimer, timerDue,
                 handed, dropped>>

NextThrottle ==
  \/ ThSend
  \/ ThTimerFire
  \/ ThDestroy
  \/ ThTick

InitThrottle == InitMgr /\ InitCaller /\ InitApp /\ InitAux

SpecThrottle == InitThrottle /\ [][NextThrottle]_vars

\* ------------------------------------------ SpecUI: voiceAssistantMachine
\* The machine under an arbitrary sequence of events.
MachineSend(ev) ==
  /\ value' = MachineStep(value, error, ev).value
  /\ error' = MachineStep(value, error, ev).error
  /\ lastEvent' = ev
  /\ prevValue' = value
  /\ UNCHANGED <<mgrVars, callerVars, appVars, thVars>>
  /\ UNCHANGED <<convVars, playerVars>>

\* the delayed transition armed on entry to starting
StartingTimeout ==
  /\ value = "starting"
  /\ value' = MachineStep(value, error, "AFTER").value
  /\ error' = MachineStep(value, error, "AFTER").error
  /\ lastEvent' = "AFTER"
  /\ prevValue' = value
  /\ UNCHANGED <<mgrVars, callerVars, appVars, thVars>>
  /\ UNCHANGED <<convVars, playerVars>>

NextUI ==
  \/ \E ev \in Events : MachineSend(ev)
  \/ StartingTimeout

InitUI == InitMgr /\ InitCaller /\ InitApp /\ InitAux

SpecUI == InitUI /\ [][NextUI]_vars

\* ------------------------------- VADVoiceClient: the machine and the audio
\* The client state the handlers below read and write, as one record; m is
\* the manager.
K ==
  [m |-> M,
   value |-> value, error |-> error, lastEvent |-> lastEvent,
   prevValue |-> prevValue, debounced |-> debounced, watchdog |-> watchdog,
   wsManagerRef |-> wsManagerRef, vadEffect |-> vadEffect,
   vadReady |-> vadReady, vadSpeaking |-> vadSpeaking,
   pendingRequestRef |-> pendingRequestRef,
   isProcessingRef |-> isProcessingRef,
   conversationActiveRef |-> conversationActiveRef,
   activeAudioElementRef |-> activeAudioElementRef,
   isPlayingRef |-> isPlayingRef, isAudioLoadingRef |-> isAudioLoadingRef,
   isPlaying |-> isPlaying,
   retryTimers |-> retryTimers, procTimers |-> procTimers,
   interruptTimers |-> interruptTimers, listenTimers |-> listenTimers,
   resumeTimers |-> resumeTimers,
   nextUtt |-> nextUtt, inflight |-> inflight,
   elemState |-> elemState, loadTimers |-> loadTimers,
   playTimers |-> playTimers, awaiting |-> awaiting,
   cancelled |-> cancelled, began |-> began, bargeIn |-> bargeIn]

\* a state-timeout effect that arms its ten seconds in every state
Armed_anyState(v) == "starting"

\* The state timeout effect depends on state.value: a render with a new
\* state.value clears the armed timer and arms one that tests the new
\* value.  The timer acts only for starting and processing.
Armed(v) == IF v \in {"starting", "processing"} THEN v ELSE "none"

CommitK(k) ==
  /\ Commit(k.m)
  /\ value' = k.value
  /\ error' = k.error
  /\ lastEvent' = k.lastEvent
  /\ prevValue' = k.prevValue
  /\ debounced' = k.debounced
  /\ watchdog' = IF k.value = value THEN k.watchdog ELSE Armed(k.value)
  /\ wsManagerRef' = k.wsManagerRef
  /\ vadEffect' = k.vadEffect
  /\ vadReady' = k.vadReady
  /\ vadSpeaking' = k.vadSpeaking
  /\ pendingRequestRef' = k.pendingRequestRef
  /\ isProcessingRef' = k.isProcessingRef
  /\ conversationActiveRef' = k.conversationActiveRef
  /\ activeAudioElementRef' = k.activeAudioElementRef
  /\ isPlayingRef' = k.isPlayingRef
  /\ isAudioLoadingRef' = k.isAudioLoadingRef
  /\ isPlaying' = k.isPlaying
  /\ retryTimers' = k.retryTimers
  /\ procTimers' = k.procTimers
  /\ interruptTimers' = k.interruptTimers
  /\ listenTimers' = k.listenTimers
  /\ resumeTimers' = k.resumeTimers
  /\ nextUtt' = k.nextUtt
  /\ inflight' = k.inflight
  /\ elemState' = k.elemState
  /\ loadTimers' = k.loadTimers
  /\ playTimers' = k.playTimers
  /\ awaiting' = k.awaiting
  /\ cancelled' = k.cancelled
  /\ began' = k.began
  /\ bargeIn' = k.bargeIn

\* what no handler of the client below touches
ConvRest ==
  <<callerVars, audioState, checkTimers, now, histVars, thVars, playerVars>>

\* send(event) of useMachine: the machine takes the event at once
sendEvent(k, ev) ==
  [k EXCEPT !.value = MachineStep(k.value, k.error, ev).value,
            !.error = MachineStep(k.value, k.error, ev).error,
            !.lastEvent = ev,
            !.prevValue = k.value]

\* debouncedSend: the event replaces the one the armed timer holds
debouncedSend(k, ev) == [k EXCEPT !.debounced = ev]

\* wsManagerRef.current.send(msg); a request travels on the open socket
wsSend(k, msg) ==
  LET after == send(k.m, msg)
  IN  [k EXCEPT !.m = after,
                !.inflight = Sent(@, k.m.ws, k.m.wire, after.wire)]

\* startVoiceAssistant with the permissions granted
startVoiceAssistant(k) ==
  LET cleared == [k EXCEPT !.pendingRequestRef = clearRequestTimeout(@)]
      started == sendEvent(sendEvent(cleared, "START"), "CLEAR_ERROR")
  IN  [started EXCEPT !.wsManagerRef = TRUE,
                      !.m = connect(@, FALSE)]

\* the onOpen callback on socket s; setIsStarted(true) mounts the VAD effect
onOpen(k, s) ==
  LET ready == debouncedSend(sendEvent(k, "READY"), "CLEAR_ERROR")
      retry == IF ready.pendingRequestRef.id # 0
               THEN [ready EXCEPT !.retryTimers = @ \cup {s}]
               ELSE ready
      mounted == [wsSend(retry, InitMsg) EXCEPT !.vadEffect = "mounted"]
  IN  sendEvent(mounted, "LISTEN")

\* initializeVAD after MicVAD.new has resolved
initializeVAD(k) ==
  LET ready == sendEvent([k EXCEPT !.vadReady = TRUE], "READY")
  IN  debouncedSend(debouncedSend(ready, "LISTEN"), "CLEAR_ERROR")

\* cleanupAudio: pause the element in the slot, empty its src, free the slot
cleanupAudio(k) ==
  LET a == k.activeAudioElementRef
      freed == IF a # 0
               THEN [k EXCEPT !.elemState[a] = "paused",
                              !.activeAudioElementRef = 0]
               ELSE k
  IN  [freed EXCEPT !.isPlayingRef = FALSE,
                    !.isAudioLoadingRef = FALSE,
                    !.isPlaying = FALSE]

\* handleInterruption; the 500 ms window after the previous interruption
\* is open for as long as the 500 ms timer that interruption armed.  The
\* element stays in the slot, paused and with an empty src.
handleInterruptionOf(k) ==
  IF k.interruptTimers > 0
  THEN k
  ELSE LET a == k.activeAudioElementRef
           flagged == [k EXCEPT !.isProcessingRef = TRUE,
                                !.conversationActiveRef = FALSE]
           stopped == IF a # 0
                      THEN [flagged EXCEPT !.elemState[a] = "paused",
                                           !.isPlaying = FALSE,
                                           !.cancelled = @ \cup {a}]
                      ELSE flagged
           told == IF stopped.wsManagerRef /\ isConnected(stopped.m)
                   THEN wsSend(stopped, InterruptMsg)
                   ELSE stopped
       IN  [debouncedSend(told, "INTERRUPT") EXCEPT !.interruptTimers = @ + 1]

\* onSpeechStart of the MicVAD instance
onSpeechStart(k) ==
  IF k.isProcessingRef
  THEN k
  ELSE LET c == [k EXCEPT !.pendingRequestRef = clearRequestTimeout(@)]
           a == c.activeAudioElementRef
       IN  IF c.isPlaying /\ a # 0
           THEN [handleInterruptionOf(c) EXCEPT
                   !.bargeIn = (c.interruptTimers = 0) \/ @]
           ELSE IF stateAtMount = "listening" \/ c.conversationActiveRef
                THEN c
                ELSE debouncedSend(
                       [c EXCEPT !.elemState =
                                    IF a # 0 THEN [@ EXCEPT ![a] = "paused"]
                                    ELSE @,
                                 !.conversationActiveRef = TRUE],
                       "SPEECH_START")

\* onSpeechEnd setting the processing flag before it looks at the audio
onSpeechEnd_flagFirst(k, u, empty) ==
  IF k.isProcessingRef
  THEN k
  ELSE LET told == sendEvent(k, "SPEECH_END")
           busy == [told EXCEPT !.isProcessingRef = TRUE,
                                !.conversationActiveRef = FALSE]
       IN  IF empty
           THEN busy
           ELSE wsSend(wsSend([busy EXCEPT !.procTimers = @ + 1,
                                           !.pendingRequestRef =
                                              [id |-> u, timestamp |-> now],
                                           !.bargeIn = FALSE],
                              ChunkMsg(u)), EndMsg(u))

\* onSpeechEnd with the audio of utterance u, empty or not, while the
\* channel is open
onSpeechEnd(k, u, empty) ==
  IF k.isProcessingRef
  THEN k
  ELSE IF empty
       THEN sendEvent(k, "SPEECH_END")
       ELSE LET told == sendEvent(k, "SPEECH_END")
                busy == [told EXCEPT !.isProcessingRef = TRUE,
                                     !.conversationActiveRef = FALSE,
                                     !.procTimers = @ + 1,
                                     !.pendingRequestRef =
                                        [id |-> u, timestamp |-> now],
                                     !.bargeIn = FALSE]
            IN  wsSend(wsSend(busy, ChunkMsg(u)), EndMsg(u))

\* the 30 s timer armed by onSpeechEnd
processingTimeout(k) ==
  LET fired == [k EXCEPT !.procTimers = @ - 1]
  IN  IF fired.isProcessingRef
      THEN debouncedSend([fired EXCEPT !.isProcessingRef = FALSE,
                                       !.conversationActiveRef = FALSE],
                         "ERROR")
      ELSE fired

\* the 10 s timer of the state timeout effect
stateTimeout(k) ==
  LET fired == [k EXCEPT !.watchdog = "none"]
  IN  IF k.watchdog = "starting"
      THEN debouncedSend(fired, "READY")
      ELSE IF k.watchdog = "processing" /\ ~k.isProcessingRef
           THEN debouncedSend(fired, "READY")
           ELSE fired

\* handleWebSocketMessage for a tts_stream_url with a valid URL, up to its
\* first await: the element of utterance u is created, its timers armed
replyReceived(k, u) ==
  LET cleared == [k EXCEPT !.pendingRequestRef = clearRequestTimeout(@)]
      clean == cleanupAudio(cleared)
  IN  [clean EXCEPT !.isProcessingRef = FALSE,
                    !.elemState[u] = "loading",
                    !.activeAudioElementRef = u,
                    !.isPlayingRef = TRUE,
                    !.loadTimers = @ \cup {u},
                    !.playTimers = @ \cup {u},
                    !.awaiting = @ \cup {u}]

\* the catch at the end of the tts_stream_url branch
replyFailed(k, u) ==
  [k EXCEPT !.isPlaying = FALSE,
            !.isProcessingRef = FALSE,
            !.conversationActiveRef = FALSE,
            !.activeAudioElementRef = 0,
            !.resumeTimers = @ + 1,
            !.awaiting = @ \ {u}]

\* audioElement.onplay
onplay(k, u) == sendEvent(k, "RESPONSE_READY")

\* The reply handler of element u is past its awaits and calls
\* audioElement.play().  A paused element that is loading leaves paused:
\* the play event is dispatched and the promise stays pending until data
\* arrives.  On an element that autoplay has started the promise resolves
\* and the handler clears playTimeout.  On an element whose src was emptied
\* the promise is rejected and the handler ends in its catch.
playCalled(k, u) ==
  CASE k.elemState[u] = "loading" ->
         onplay([k EXCEPT !.elemState[u] = "waiting",
                          !.isAudioLoadingRef = TRUE], u)
    [] k.elemState[u] = "playing" ->
         [k EXCEPT !.playTimers = @ \ {u}, !.awaiting = @ \ {u}]
    [] OTHER -> replyFailed(k, u)

\* Data of element u arrives: oncanplay, and the audio begins.  When the
\* handler has called play() its promise resolves and it clears
\* playTimeout; otherwise autoplay starts the element, which dispatches
\* the play event.
canPlay(k, u) ==
  LET loaded == [k EXCEPT !.loadTimers = @ \ {u},
                          !.isPlaying = TRUE,
                          !.elemState[u] = "playing",
                          !.began = @ \cup {u}]
  IN  IF k.elemState[u] = "waiting"
      THEN [loaded EXCEPT !.playTimers = @ \ {u}, !.awaiting = @ \ {u}]
      ELSE onplay([loaded EXCEPT !.isAudioLoadingRef = TRUE], u)

\* The resource of element u cannot be loaded.  handleAudioError ignores
\* the error event of an element whose readyState is below 2; a pending
\* play() promise is rejected and the reply handler ends in its catch.
loadFailed(k, u) ==
  IF k.elemState[u] = "waiting"
  THEN replyFailed([k EXCEPT !.elemState[u] = "failed"], u)
  ELSE [k EXCEPT !.elemState[u] = "failed", !.isAudioLoadingRef = TRUE]

\* the 5 s loadTimeout of element u calls audioElement.play()
loadTimeout(k, u) ==
  LET fired == [k EXCEPT !.loadTimers = @ \ {u}]
  IN  CASE k.elemState[u] = "loading" ->
             onplay([fired EXCEPT !.elemState[u] = "waiting",
                                  !.isAudioLoadingRef = TRUE], u)
        [] k.elemState[u] \in {"paused", "failed"} ->
             [fired EXCEPT !.isPlaying = FALSE,
                           !.isProcessingRef = FALSE,
                           !.conversationActiveRef = FALSE,
                           !.activeAudioElementRef = 0,
                           !.resumeTimers = @ + 1]
        [] OTHER -> fired

\* the 30 s playTimeout of element u
playTimeout(k, u) ==
  LET fired == [k EXCEPT !.playTimers = @ \ {u}]
      freed == IF k.activeAudioElementRef = u
               THEN [fired EXCEPT !.elemState[u] = "paused",
                                  !.activeAudioElementRef = 0]
               ELSE fired
  IN  [freed EXCEPT !.isPlaying = FALSE,
                    !.isProcessingRef = FALSE,
                    !.conversationActiveRef = FALSE,
                    !.resumeTimers = @ + 1]

\* handleAudioEnded, the ended listener of element u
handleAudioEnded(k, u) ==
  LET reset == [k EXCEPT !.elemState[u] = "ended",
                         !.isPlayingRef = FALSE,
                         !.isAudioLoadingRef = FALSE,
                         !.isPlaying = FALSE,
                         !.isProcessingRef = FALSE,
                         !.conversationActiveRef = FALSE,
                         !.pendingRequestRef = clearRequestTimeout(@),
                         !.activeAudioElementRef = 0,
                         !.listenTimers = @ + 1]
  IN  debouncedSend(debouncedSend(reset, "END"), "CLEAR_ERROR")

\* the 100 ms timer of handleAudioEnded
listenTimer(k) ==
  debouncedSend([k EXCEPT !.listenTimers = @ - 1], "LISTEN")

\* the 100 ms timer of the failure paths: resumeVAD, LISTEN, CLEAR_ERROR
resumeTimer(k) ==
  debouncedSend(debouncedSend([k EXCEPT !.resumeTimers = @ - 1], "LISTEN"),
                "CLEAR_ERROR")

\* the 500 ms timer armed by handleInterruption
interruptTimer(k) ==
  [k EXCEPT !.interruptTimers = @ - 1, !.isProcessingRef = FALSE]

\* the timer of debouncedSend
debounceTimer(k) == sendEvent([k EXCEPT !.debounced = "none"], k.debounced)

\* -------------------------------------- SpecConv: turns of a conversation
\* One session of the client on a channel that opens and stays open: the
\* user speaks, the server answers each request at most once with a valid
\* URL, and the timers the handlers arm fire at any later step.
ConvStart ==
  /\ ~wsManagerRef /\ vadEffect = "none" /\ nsock = 0
  /\ CommitK(startVoiceAssistant(K))
  /\ UNCHANGED ConvRest

ConvSockOpen(s) ==
  /\ socks[s] = "CONNECTING"
  /\ CommitK(onOpen([K EXCEPT !.m = onopen([M EXCEPT !.socks[s] = "OPEN"])], s))
  /\ UNCHANGED ConvRest

\* the delayed transition of starting
ConvStartingTimeout ==
  /\ value = "starting"
  /\ CommitK(sendEvent(K, "AFTER"))
  /\ UNCHANGED ConvRest

ConvVADInit ==
  /\ vadEffect = "mounted" /\ ~vadReady
  /\ CommitK(initializeVAD(K))
  /\ UNCHANGED ConvRest

ConvSpeechStart ==
  /\ vadReady /\ ~vadSpeaking /\ nextUtt < MaxUtt
  /\ CommitK(onSpeechStart([K EXCEPT !.vadSpeaking = TRUE]))
  /\ UNCHANGED ConvRest

ConvSpeechEnd(empty) ==
  /\ vadReady /\ vadSpeaking /\ isWebSocketConnected
  /\ CommitK(onSpeechEnd([K EXCEPT !.vadSpeaking = FALSE,
                                   !.nextUtt = @ + 1],
                         nextUtt + 1, empty))
  /\ UNCHANGED ConvRest

ConvVADMisfire ==
  /\ vadReady /\ vadSpeaking
  /\ CommitK(sendEvent([K EXCEPT !.vadSpeaking = FALSE], "INTERRUPT"))
  /\ UNCHANGED ConvRest

ConvProcessingTimeout ==
  /\ procTimers > 0
  /\ CommitK(processingTimeout(K))
  /\ UNCHANGED ConvRest

ConvStateTimeout ==
  /\ watchdog # "none"
  /\ CommitK(stateTimeout(K))
  /\ UNCHANGED ConvRest

ConvDebounce ==
  /\ debounced # "none"
  /\ CommitK(debounceTimer(K))
  /\ UNCHANGED ConvRest

ConvReply(s, u) ==
  /\ socks[s] = "OPEN" /\ inflight[s][u] > 0 /\ elemState[u] = "none"
  /\ CommitK(replyReceived([K EXCEPT !.inflight[s][u] = @ - 1], u))
  /\ UNCHANGED ConvRest

ConvPlayCalled(u) ==
  /\ u \in awaiting /\ elemState[u] # "waiting"
  /\ CommitK(playCalled(K, u))
  /\ UNCHANGED ConvRest

ConvCanPlay(u) ==
  /\ elemState[u] \in {"loading", "waiting"}
  /\ CommitK(canPlay(K, u))
  /\ UNCHANGED ConvRest

ConvLoadFailed(u) ==
  /\ elemState[u] \in {"loading", "waiting"}
  /\ CommitK(loadFailed(K, u))
  /\ UNCHANGED ConvRest

ConvLoadTimeout(u) ==
  /\ u \in loadTimers
  /\ CommitK(loadTimeout(K, u))
  /\ UNCHANGED ConvRest

ConvPlayTimeout(u) ==
  /\ u \in playTimers
  /\ CommitK(playTimeout(K, u))
  /\ UNCHANGED ConvRest

ConvAudioEnded(u) ==
  /\ elemState[u] = "playing"
  /\ CommitK(handleAudioEnded(K, u))
  /\ UNCHANGED ConvRest

ConvListenTimer ==
  /\ listenTimers > 0
  /\ CommitK(listenTimer(K))
  /\ UNCHANGED ConvRest

ConvResumeTimer ==
  /\ resumeTimers > 0
  /\ CommitK(resumeTimer(K))
  /\ UNCHANGED ConvRest

ConvInterruptTimer ==
  /\ interruptTimers > 0
  /\ CommitK(interruptTimer(K))
  /\ UNCHANGED ConvRest

\* the steps the browser takes by itself once their timer or event is due
ConvTimers ==
  \/ ConvStartingTimeout
  \/ ConvProcessingTimeout
  \/ ConvStateTimeout
  \/ ConvDebounce
  \/ \E u \in Utts : ConvPlayCalled(u)
  \/ \E u \in Utts : ConvLoadTimeout(u)
  \/ \E u \in Utts : ConvPlayTimeout(u)
  \/ ConvListenTimer
  \/ ConvResumeTimer
  \/ ConvInterruptTimer

NextConv ==
  \/ ConvStart
  \/ \E s \in SockIds : ConvSockOpen(s)
  \/ ConvStartingTimeout
  \/ ConvVADInit
  \/ ConvSpeechStart
  \/ \E empty \in BOOLEAN : ConvSpeechEnd(empty)
  \/ ConvVADMisfire
  \/ ConvProcessingTimeout
  \/ ConvStateTimeout
  \/ ConvDebounce
  \/ \E s \in SockIds : \E u \in Utts : ConvReply(s, u)
  \/ \E u \in Utts : ConvPlayCalled(u)
  \/ \E u \in Utts : ConvCanPlay(u)
  \/ \E u \in Utts : ConvLoadFailed(u)
  \/ \E u \in Utts : ConvLoadTimeout(u)
  \/ \E u \in Utts : ConvPlayTimeout(u)
  \/ \E u \in Utts : ConvAudioEnded(u)
  \/ ConvListenTimer
  \/ ConvResumeTimer
  \/ ConvInterruptTimer

InitConv == InitMgr /\ InitCaller /\ InitApp /\ InitAux

SpecConv == InitConv /\ [][NextConv]_vars

\* The conversation when every utterance carries audio, every resource
\* loads and the VAD reports no misfire, with every due timer and every
\* handler continuation eventually run.
NextConvLive ==
  \/ ConvStart
  \/ \E s \in SockIds : ConvSockOpen(s)
  \/ ConvStartingTimeout
  \/ ConvVADInit
  \/ ConvSpeechStart
  \/ ConvSpeechEnd(FALSE)
  \/ ConvProcessingTimeout
  \/ ConvStateTimeout
  \/ ConvDebounce
  \/ \E s \in SockIds : \E u \in Utts : ConvReply(s, u)
  \/ \E u \in Utts : ConvPlayCalled(u)
  \/ \E u \in Utts : ConvCanPlay(u)
  \/ \E u \in Utts : ConvLoadTimeout(u)
  \/ \E u \in Utts : ConvPlayTimeout(u)
  \/ \E u \in Utts : ConvAudioEnded(u)
  \/ ConvListenTimer
  \/ ConvResumeTimer
  \/ ConvInterruptTimer

SpecConvLive == InitConv /\ [][NextConvLive]_vars /\ WF_vars(ConvTimers)

\* --------------------------------- SpecSilent: the VAD and its timers
\* The conversation while the server sends no reply: the VAD reports
\* speech starts, speech ends with or without audio and misfires, and the
\* timers that these arm run when due.
SilentTimers ==
  \/ ConvStartingTimeout
  \/ ConvProcessingTimeout
  \/ ConvStateTimeout
  \/ ConvDebounce

NextSilent ==
  \/ ConvStart
  \/ \E s \in SockIds : ConvSockOpen(s)
  \/ ConvVADInit
  \/ ConvSpeechStart
  \/ \E empty \in BOOLEAN : ConvSpeechEnd(empty)
  \/ ConvVADMisfire
  \/ SilentTimers

InitSilent == InitMgr /\ InitCaller /\ InitApp /\ InitAux

SpecSilent == InitSilent /\ [][NextSilent]_vars /\ WF_vars(SilentTimers)

\* ------------------------------------ SpecDrop: connection failures
\* The start of a session on a channel whose connections fail or drop:
\* the manager reconnects, the callbacks of startVoiceAssistant feed the
\* machine, and the user may press "Change Language".  The WebSocket
\* constructor may throw, as in SpecRC.
onReconnectFailed(k) == debouncedSend(k, "ERROR")

\* the cleanup of the VAD effect, run when setIsStarted(false) changes
\* isStarted
vadEffectCleanup(k) ==
  IF k.vadEffect # "mounted"
  THEN k
  ELSE LET a == k.activeAudioElementRef
           stopped == IF a # 0
                      THEN [k EXCEPT !.elemState[a] = "paused",
                                     !.activeAudioElementRef = 0]
                      ELSE k
       IN  [stopped EXCEPT !.isProcessingRef = FALSE,
                           !.debounced = "none",
                           !.m = destroy(@),
                           !.wsManagerRef = FALSE,
                           !.vadReady = FALSE,
                           !.vadSpeaking = FALSE,
                           !.vadEffect = "cleaned"]

\* the onClose callback; the render that setIsStarted(false) causes runs
\* the effect cleanup after the callback has returned
onClose(k, code) ==
  LET cleared == [k EXCEPT !.debounced = "none"]
      told == IF code \in {1000, 1001}
              THEN cleared
              ELSE debouncedSend(cleared, "ERROR")
  IN  vadEffectCleanup(told)

\* ws.onclose of socket s: the manager part, then onReconnectFailed when
\* the counter is at the ceiling, then onClose
socketClosed(k, s, code) ==
  LET c == cleanup(closed(k.m, s))
      retrying == ~c.isIntentionalClose /\ ~c.isDestroyed
                  /\ c.reconnectAttempts < maxReconnectAttempts
      after == [k EXCEPT !.m = onclose(closed(k.m, s)),
                         !.inflight[s] = [u \in Utts |-> 0]]
      failed == IF ~retrying /\ c.reconnectAttempts >= maxReconnectAttempts
                THEN onReconnectFailed(after)
                ELSE after
  IN  onClose(failed, code)

\* the "Change Language" button
changeLanguage(k) == vadEffectCleanup(sendEvent(k, "CANCEL"))

DropSockClose(s, code) ==
  /\ socks[s] \in {"CONNECTING", "OPEN", "CLOSING"}
  /\ CommitK(socketClosed(K, s, code))
  /\ UNCHANGED ConvRest

DropReconnectTimer(throws) ==
  /\ reconnectTimer
  /\ nsock < MaxSockets
  /\ throws => ThrowAllowed
  /\ CommitK([K EXCEPT !.m = reconnectTimerFired(@, throws)])
  /\ UNCHANGED ConvRest

DropChangeLanguage ==
  /\ wsManagerRef \/ value # "idle"
  /\ CommitK(changeLanguage(K))
  /\ UNCHANGED ConvRest

\* createWebSocketManager: a new manager for the new session; the sockets
\* and the wire of the channel stay
createWebSocketManager(m) ==
  [m EXCEPT !.ws = 0, !.reconnectAttempts = 0, !.heartbeatTimer = FALSE,
            !.reconnectTimer = FALSE, !.isIntentionalClose = FALSE,
            !.messageQueue = <<>>, !.isDestroyed = FALSE,
            !.hbTimeouts = 0, !.flushPending = FALSE, !.delay = 0,
            !.hbSock = 0, !.scheduled = 0, !.reconnectFailed = FALSE,
            !.hbStale = FALSE, !.hbAnswered = FALSE]

\* the Start button pressed again; it is shown while isStarted is false.
\* The press is taken when the manager of the earlier session has come to
\* rest (no timer, no socket that can still report), so that one manager
\* is at work at a time.
DropRestart ==
  /\ wsManagerRef /\ vadEffect # "mounted"
  /\ value \in {"error", "idle"}
  /\ ~reconnectTimer /\ ~heartbeatTimer
  /\ \A s \in SockIds : socks[s] \in {"NONE", "CLOSED"}
  /\ nsock < MaxSockets
  /\ CommitK(startVoiceAssistant([K EXCEPT !.m = createWebSocketManager(@)]))
  /\ UNCHANGED ConvRest

NextDrop ==
  \/ ConvStart
  \/ \E s \in SockIds : ConvSockOpen(s)
  \/ \E s \in SockIds : \E code \in CloseCodes : DropSockClose(s, code)
  \/ \E throws \in BOOLEAN : DropReconnectTimer(throws)
  \/ ConvStartingTimeout
  \/ ConvStateTimeout
  \/ ConvDebounce
  \/ DropChangeLanguage
  \/ DropRestart

InitDrop == InitMgr /\ InitCaller /\ InitApp /\ InitAux

SpecDrop == InitDrop /\ [][NextDrop]_vars

\* ----------------------------------------- SpecPlayer: useAudioPlayer
\* The module state of the hook as one record.  A session is one call of
\* playAudioFromUrl; player[p] is the state of the element of session p:
\* none, queued (no element yet), starting (play() called, promise
\* pending), playing, aborting (paused while its promise was pending: the
\* rejection is on its way), paused, ended, failed, blocked, dropped.
H ==
  [activePlayer |-> activePlayer, isSpeaking |-> isSpeaking, queue |-> queue,
   hookIsPlaying |-> hookIsPlaying, player |-> player,
   onEndCalls |-> onEndCalls, onErrorCalls |-> onErrorCalls]

CommitH(h) ==
  /\ activePlayer' = h.activePlayer
  /\ isSpeaking' = h.isSpeaking
  /\ queue' = h.queue
  /\ hookIsPlaying' = h.hookIsPlaying
  /\ player' = h.player
  /\ onEndCalls' = h.onEndCalls
  /\ onErrorCalls' = h.onErrorCalls

PlayerRest == <<mgrVars, callerVars, appVars, thVars, uiVars, convVars>>

\* pause() on an element in state st; a pending play() promise is
\* rejected with AbortError in a later task
Paused(st) == IF st = "starting" THEN "aborting" ELSE "paused"

\* the body shared by playAudioFromUrl and playNextInQueue once the hook is
\* not speaking: the element of session p is created and play() is called
startElement(h, p) ==
  LET a == h.activePlayer
      cleaned == IF a # 0
                 THEN [h EXCEPT !.player[a] = Paused(@), !.activePlayer = 0]
                 ELSE h
  IN  [cleaned EXCEPT !.isSpeaking = TRUE,
                      !.hookIsPlaying = TRUE,
                      !.player[p] = "starting",
                      !.activePlayer = p]

playNextInQueue(h) ==
  IF h.queue = <<>>
  THEN h
  ELSE LET next == Head(h.queue)
           rest == [h EXCEPT !.queue = Tail(@)]
       IN  IF rest.isSpeaking
           THEN [rest EXCEPT !.queue = Append(@, next)]
           ELSE startElement(rest, next)

playAudioFromUrl(h, p) ==
  IF h.isSpeaking
  THEN [h EXCEPT !.queue = Append(@, p), !.player[p] = "queued"]
  ELSE startElement(h, p)

\* the reset every listener and catch block starts with
released(h) ==
  [h EXCEPT !.activePlayer = 0, !.isSpeaking = FALSE, !.hookIsPlaying = FALSE]

\* the ended listener of the element of session p
onEnded(h, p) ==
  playNextInQueue([released(h) EXCEPT !.onEndCalls[p] = @ + 1])

\* the error listener of the element of session p, and equally the catch
\* of its play() promise
onFailure(h, p) ==
  playNextInQueue([released(h) EXCEPT !.onErrorCalls[p] = @ + 1])

\* The resource of session p cannot be loaded: the element dispatches the
\* error event and then rejects the pending play() promise, so the error
\* listener runs and after it the catch of the promise.
loadError(h, p) ==
  LET heard == onFailure([h EXCEPT !.player[p] = "failed"], p)
  IN  onFailure(heard, p)

cancelSpeech(h) ==
  LET a == h.activePlayer
  IN  IF a = 0
      THEN h
      ELSE [released(h) EXCEPT
              !.player = [p \in Plays |->
                            IF p = a THEN Paused(@[p])
                            ELSE IF @[p] = "queued" THEN "dropped"
                            ELSE @[p]],
              !.queue = <<>>]

PlayAudioFromUrl ==
  /\ nplay < MaxPlays
  /\ nplay' = nplay + 1
  /\ CommitH(playAudioFromUrl(H, nplay + 1))
  /\ UNCHANGED PlayerRest

\* play() resolves: playback has started
PlayerStarted(p) ==
  /\ player[p] = "starting"
  /\ CommitH([H EXCEPT !.player[p] = "playing"])
  /\ UNCHANGED <<nplay, PlayerRest>>

PlayerEnded(p) ==
  /\ player[p] = "playing"
  /\ CommitH(onEnded([H EXCEPT !.player[p] = "ended"], p))
  /\ UNCHANGED <<nplay, PlayerRest>>

PlayerLoadError(p) ==
  /\ player[p] = "starting"
  /\ CommitH(loadError(H, p))
  /\ UNCHANGED <<nplay, PlayerRest>>

\* an error while the element is playing: the error listener alone
PlayerPlaybackError(p) ==
  /\ player[p] = "playing"
  /\ CommitH(onFailure([H EXCEPT !.player[p] = "failed"], p))
  /\ UNCHANGED <<nplay, PlayerRest>>

\* play() is rejected with NotAllowedError and unlocking does not help:
\* the catch alone
PlayerNotAllowed(p) ==
  /\ player[p] = "starting"
  /\ CommitH(onFailure([H EXCEPT !.player[p] = "blocked"], p))
  /\ UNCHANGED <<nplay, PlayerRest>>

CancelSpeech ==
  /\ CommitH(cancelSpeech(H))
  /\ UNCHANGED <<nplay, PlayerRest>>

\* the play() promise of a paused element is rejected with AbortError: the
\* catch of startPlayback runs
PlayerAborted(p) ==
  /\ player[p] = "aborting"
  /\ CommitH(onFailure([H EXCEPT !.player[p] = "paused"], p))
  /\ UNCHANGED <<nplay, PlayerRest>>

NextPlayer ==
  \/ PlayAudioFromUrl
  \/ \E p \in Plays : PlayerStarted(p)
  \/ \E p \in Plays : PlayerEnded(p)
  \/ \E p \in Plays : PlayerLoadError(p)
  \/ \E p \in Plays : PlayerPlaybackError(p)
  \/ \E p \in Plays : PlayerNotAllowed(p)
  \/ CancelSpeech
  \/ \E p \in Plays : PlayerAborted(p)

InitPlayer == InitMgr /\ InitCaller /\ InitApp /\ InitAux

SpecPlayer == InitPlayer /\ [][NextPlayer]_vars

\* ------------------------------------------------------------- claims C1-C6
\* a tts_stream_url message is delivered to handleWebSocketMessage in this step
ReplyArrives ==
  \E s \in SockIds : \E u \in Utts :
    socks'[s] = "OPEN" /\ inflight'[s][u] = inflight[s][u] - 1

\* the 1 s timer of some open runs retryPendingRequest in this step
RetryRuns == retryTimers' # retryTimers /\ retryTimers' \subseteq retryTimers

\* C1: for every open of the channel that found a PendingRequest, the flush
\* of the manager's queue at that open and the retryPendingRequest armed by
\* that open together put the utterance on the wire at most once.
C1_OneResendPerOpen == \A s \in SockIds : txByOpen[s] <= 1

\* C2: for one utterance, its original send and its resends taken together,
\* at most one tts_stream_url reply starts a playback.
C2_OnePlaybackPerUtterance == \A u \in Utts : played[u] <= 1

\* C3: a tts_stream_url reply that arrives while no PendingRequest is alive
\* starts no playback.
C3_StaleReplyDropped ==
  [][(pendingRequestRef.id = 0 /\ ReplyArrives)
       => (played' = played
           /\ activeAudioElementRef' = activeAudioElementRef)]_vars

\* C4: the reply for the pending utterance clears the PendingRequest in the
\* same step, and an utterance answered that way is never put on the wire
\* again, neither by a later open nor by a retry timer armed before.
C4_NoResendAfterReply ==
  [][/\ (pendingRequestRef.id # 0 /\ ReplyArrives
          /\ acked'[pendingRequestRef.id] # acked[pendingRequestRef.id])
         => pendingRequestRef' = NoPending
     /\ \A u \in Utts :
          acked[u] # 0 => TxCount(wire', u) = TxCount(wire, u)]_vars

\* C4 witness: an utterance was answered while pending, the channel was
\* opened again later, and no request is tracked.
C4_Witness ==
  \E u \in Utts : \E s \in SockIds :
    /\ acked[u] # 0 /\ s > acked[u] /\ socks[s] = "OPEN"
    /\ pendingRequestRef = NoPending

\* C5: a PendingRequest that is neither acknowledged, abandoned nor expired
\* is never replaced by the request of a later utterance.
C5_NoOverwriteOfLivePending ==
  [][~(/\ pendingRequestRef.id # 0
       /\ pendingRequestRef'.id # 0
       /\ pendingRequestRef'.id # pendingRequestRef.id
       /\ now - pendingRequestRef.timestamp <= maxPendingAge)]_vars

\* how often utterance u waits in the manager's queue
QueuedCount(q, u) == Cardinality({i \in 1..Len(q) : q[i] = EndMsg(u)})

LiveSockets == {s \in SockIds : socks[s] \in {"CONNECTING", "OPEN"}}

\* C7: connect() while the channel is Open or Connecting creates no second
\* WebSocket: the manager never has two connections alive at the same time.
C7_NoDuplicateConnection == Cardinality(LiveSockets) <= 1

\* C8: send(msg) on a manager that is not destroyed returns true and puts
\* msg on the wire when the channel is Open; in every other state it appends
\* msg to the outbound queue, transmits nothing and returns false.
C8_SendContract ==
  [][(lastCall' = "send" /\ nextMsg' = nextMsg + 1 /\ ~isDestroyed) =>
       IF ws # 0 /\ socks[ws] = "OPEN"
       THEN /\ lastRet'
            /\ wire' = Append(wire, AppMsg(nextMsg + 1))
            /\ messageQueue' = messageQueue
       ELSE /\ ~lastRet'
            /\ wire' = wire
            /\ \/ messageQueue' = Append(messageQueue, AppMsg(nextMsg + 1))
               \/ /\ Len(messageQueue) >= maxMessageQueueSize
                  /\ messageQueue' =
                       Append(Tail(messageQueue), AppMsg(nextMsg + 1))]_vars

\* a send on an open channel returned true after an earlier one was queued
C8_Witness ==
  /\ lastCall = "send" /\ lastRet
  /\ Len(wire) >= 2
  /\ wire[Len(wire)] = AppMsg(nextMsg)

\* C9: after disconnect() no reconnect is scheduled or performed: the
\* channel stays closed until connect() is called explicitly.
C9_NoReconnectAfterDisconnect ==
  disconnected => /\ ~reconnectTimer
                  /\ readyState(M) \in {"CLOSING", "CLOSED"}

\* C10: after destroy() connect() opens no connection, send() and
\* sendBatch() neither transmit nor enqueue, the queue stays empty and no
\* reconnect is scheduled.
C10_DestroyTerminal ==
  [][isDestroyed' =>
       /\ messageQueue' = <<>>
       /\ ~reconnectTimer'
       /\ isDestroyed => (wire' = wire /\ nsock' = nsock /\ ws' = 0)]_vars

\* send() was called on a destroyed manager
C10_Witness ==
  /\ isDestroyed
  /\ lastCall \in {"send", "sendBatch"}
  /\ nsock > 0

\* ----------------------------------------------------------- claims C11-C15
\* C11: every reconnect is scheduled after reconnectDelay * 2^attempts
\* capped at 30000 ms, attempts being the reconnects already scheduled
\* since the last successful open: 1000, 2000, 4000, 8000, 16000 ms for the
\* first five, and never more than 30000 ms.
C11_BackoffDelay ==
  [][scheduled' = scheduled + 1 =>
       /\ delay' = Min(reconnectDelay * 2^scheduled, maxReconnectDelay)
       /\ scheduled < 5 =>
            delay' = <<1000, 2000, 4000, 8000, 16000>>[scheduled + 1]
       /\ delay' <= 30000]_vars

\* the fifth consecutive reconnect is waiting for its timer
C11_Witness == reconnectTimer /\ scheduled = 5 /\ delay = 16000

\* a socket of the manager is closed in this step
SocketCloses == \E s \in SockIds : socks[s] # "CLOSED" /\ socks'[s] = "CLOSED"

C13_AttemptsBounded == reconnectAttempts <= maxReconnectAttempts

\* C13, second half: the attempt counter is 0 right after every open.
C13_ZeroAfterOpen ==
  [][(\E s \in SockIds : socks[s] = "CONNECTING" /\ socks'[s] = "OPEN")
       => reconnectAttempts' = 0]_vars

\* C14: a heartbeat-reply timeout armed before disconnect() or destroy()
\* closes no connection and sends nothing when it runs out.
C14_NoStaleTimerActs ==
  [][(hbStale /\ hbTimeouts' < hbTimeouts)
       => (socks' = socks /\ wire' = wire)]_vars

\* C15: the heartbeat-reply timeout closes the connection only if the pong
\* for its ping has not arrived.
C15_CloseOnlyWithoutPong ==
  [][(hbTimeouts' < hbTimeouts /\ socks' # socks) => ~hbAnswered]_vars

\* ----------------------------------------------------------- claims C16-C17
\* messages appended to the queue in this step, oldest first
Enqueued ==
  IF lastCall' = "submit" /\ nextMsg' = nextMsg + 1
  THEN <<ChunkMsg(nextMsg + 1), EndMsg(nextMsg + 1)>>
  ELSE <<>>

\* C16: the queue never holds more than maxMessageQueueSize messages, and
\* enqueueing on a full queue evicts exactly the oldest message for each
\* new one, the others keeping their order with the new ones last.
C16_BoundedDropOldest ==
  [][/\ Len(messageQueue') <= maxMessageQueueSize
     /\ Enqueued # <<>> =>
          LET all  == messageQueue \o Enqueued
              over == Len(Enqueued)
                        - Min(Len(Enqueued),
                              maxMessageQueueSize - Len(messageQueue))
          IN  messageQueue' = DropOldest(all, over)]_vars

\* the queue is full and its oldest messages have been evicted
C16_Witness ==
  /\ Len(messageQueue) = maxMessageQueueSize
  /\ messageQueue[1] # ChunkMsg(1)
  /\ messageQueue[Len(messageQueue)] = EndMsg(nextMsg)

C18_ThrottleKeepsOrder ==
  /\ \A j \in 2..Len(handed) : handed[j - 1].id < handed[j].id
  /\ \A n \in 1..nextMsg :
       \/ \E j \in 1..Len(handed) : handed[j] = AppMsg(n)
       \/ \E j \in 1..Len(pendingMessages) : pendingMessages[j] = AppMsg(n)
       \/ n \in dropped
  /\ pendingMessages # <<>> => throttleTimer

\* ----------------------------------------------------------- claims C19-C20
\* C19: the last event the machine received took it from the state it was
\* in to the target the authoritative table lists for that state and event
\* (rows: phase, event, target).
C19_TableRows ==
  LET AuthoritativeTable ==
        {<<"idle", "START", "starting">>,
         <<"starting", "READY", "ready">>,
         <<"starting", "AFTER", "error">>,
         <<"ready", "SPEECH_START", "listening">>,
         <<"listening", "SPEECH_END", "processing">>,
         <<"listening", "INTERRUPT", "interrupted">>,
         <<"processing", "RESPONSE_READY", "responding">>,
         <<"processing", "ERROR", "error">>,
         <<"responding", "END", "ready">>,
         <<"responding", "INTERRUPT", "interrupted">>,
         <<"interrupted", "RESUME", "listening">>,
         <<"interrupted", "CANCEL", "idle">>,
         <<"error", "RETRY", "listening">>,
         <<"error", "CANCEL", "idle">>}
  IN  \A row \in AuthoritativeTable :
        (prevValue = row[1] /\ lastEvent = row[2]) => value = row[3]

\* the machine has just taken the row Error/retry
C19_Witness == prevValue = "error" /\ lastEvent = "RETRY"

\* C20: while the machine is in error, context.error holds an error
\* message.
C20_ErrorKeepsMessage == value = "error" => error # NoError

\* C20, first half: in every state but error, context.error is null.
C20_ClearedElsewhere == value # "error" => error = NoError

\* ----------------------------------------------------------------- claim C21
\* C21: whatever events the machine has received, in idle, starting, ready,
\* listening, processing, responding and interrupted context.error is null:
\* the message stored by an earlier failure does not survive the entry into
\* any of these states.
C21_NoStaleError ==
  value \in {"idle", "starting", "ready", "listening", "processing",
             "responding", "interrupted"} => error = NoError

\* the machine failed (ERROR or the start timeout stored a message on the
\* way into error) and has just left error for ready
C21_Witness ==
  prevValue = "error" /\ lastEvent = "READY" /\ value = "ready"

\* ----------------------------------------------------------------- claim C22
\* C22: whenever the machine is in processing for the request of utterance
\* u, the reply to u arrives or the machine reaches ready; with the reply
\* never arriving, the timers alone bring the machine to ready.
C22_ProcessingReachesReady ==
  \A u \in Utts :
    (value = "processing" /\ pendingRequestRef.id = u)
      ~> (value = "ready" \/ elemState[u] # "none")

\* ----------------------------------------------------------------- claim C23
\* C23: after onSpeechStart has interrupted a playing reply and the machine
\* has become interrupted, the machine reaches listening by the timers
\* alone.
C23_BargeInResumesListening ==
  (bargeIn /\ value = "interrupted") ~> (value = "listening")

\* ----------------------------------------------------------------- claim C24
\* C24: when, after a barge-in has taken the machine to interrupted,
\* onSpeechEnd accepts the audio of the interrupting utterance and sends it,
\* the machine is in processing once the handler returns.
C24_FreshTurnAfterBargeIn ==
  [][(bargeIn /\ value = "interrupted" /\ nextUtt' = nextUtt + 1
        /\ pendingRequestRef'.id = nextUtt')
       => value' = "processing"]_vars

\* C24: the request sent for the interrupting utterance carries that
\* utterance's audio, not the cancelled turn's.
C24_SendsOwnAudio ==
  [][(bargeIn /\ nextUtt' = nextUtt + 1
        /\ pendingRequestRef'.id = nextUtt')
       => /\ Len(wire') = Len(wire) + 2
          /\ wire'[Len(wire') - 1] = ChunkMsg(nextUtt')
          /\ wire'[Len(wire')] = EndMsg(nextUtt')]_vars

\* ----------------------------------------------------------------- claim C25
\* a step in which a callback of the cancelled element u runs: the
\* continuation of its reply handler, its playTimeout or its loadTimeout
LateCallback(u) ==
  /\ u \in cancelled
  /\ \/ u \in awaiting /\ u \notin awaiting'
     \/ u \in playTimers /\ u \notin playTimers'
     \/ u \in loadTimers /\ u \notin loadTimers'

\* C25: once a barge-in has cancelled the playback of a reply, no callback
\* of that reply that runs later changes the state of the machine or what
\* activeAudioElementRef holds.
C25_NoLateCallback ==
  [][\A u \in Utts :
       LateCallback(u) =>
         /\ value' = value
         /\ activeAudioElementRef' = activeAudioElementRef]_vars

\* C25: the callbacks of a cancelled reply do not themselves change the
\* state of the machine.
C25_PhaseUntouched ==
  [][\A u \in Utts : LateCallback(u) => value' = value]_vars

\* ----------------------------------------------------------------- claim C28
\* C28: whenever the machine enters responding, the audio of the element
\* in activeAudioElementRef has begun to play.
C28_RespondingOnlyWhenAudible ==
  [][(value # "responding" /\ value' = "responding")
       => /\ activeAudioElementRef' # 0
          /\ activeAudioElementRef' \in began']_vars

\* C28: the machine enters responding only on RESPONSE_READY, and an
\* element has then left the paused state it was created in:
\* RESPONSE_READY is not sent on receipt of the URL.
C28_RespondingOnlyAfterPlayEvent ==
  [][(value # "responding" /\ value' = "responding")
       => /\ lastEvent' = "RESPONSE_READY"
          /\ \E u \in Utts : elemState'[u] \in {"waiting", "playing"}]_vars

\* ----------------------------------------------------------------- claim C26
\* the sessions whose element is not paused and has neither ended nor failed
Live == {p \in Plays : player[p] \in {"starting", "playing"}}

\* C26: at every moment at most one session has an element that is playing
\* or about to play.
C26_AtMostOneLive == Cardinality(Live) <= 1

\* C26: a call of playAudioFromUrl leaves the session it creates as the
\* one live session, whatever was playing before.
C26_SecondStartReplaces ==
  [][nplay' = nplay + 1 => (activePlayer' = nplay' /\ Live' = {nplay'})]_vars

\* ----------------------------------------------------------------- claim C27
\* C27: no session is notified more than once: the calls of onEnd and
\* onError for a session never add up to more than one.
C27_AtMostOneNotification ==
  \A p \in Plays : onEndCalls[p] + onErrorCalls[p] <= 1

\* C27: a session whose element has stopped for good has been notified.
C27_AtLeastOneNotification ==
  \A p \in Plays :
    player[p] \in {"paused", "ended", "failed", "blocked", "dropped"}
      => onEndCalls[p] + onErrorCalls[p] >= 1

\* C27: a session is never told both that it ended and that it failed.
C27_NeverBoth ==
  \A p \in Plays : ~(onEndCalls[p] > 0 /\ onErrorCalls[p] > 0)

\* ----------------------------------------------------------------- claim C29
\* C29: when a reconnection succeeds, the failure it repairs has not been
\* shown to the machine: the machine is not in error from an ERROR event
\* at the moment the new connection opens.
C29_TransientDropNotSurfaced ==
  [][(~isConnected(M) /\ isConnected(M)' /\ scheduled > 0)
       => ~(value = "error" /\ lastEvent = "ERROR")]_vars

\* C29: no ERROR event reaches the machine while the manager has not given
\* up reconnecting.
C29_NoErrorBeforeCeiling ==
  [][(debounced = "ERROR" /\ lastEvent' = "ERROR" /\ debounced' = "none"
        /\ value' = "error" /\ value # "error")
       => reconnectFailed]_vars

C29_DropOfOpenConnectionEndsSession ==
  [][(isConnected(M) /\ ~isConnected(M)') => isDestroyed']_vars

\* ----------------------------------------------------------------- claim C31
\* C31: a CANCEL event leaves the machine in idle, whatever state it was
\* sent in.
C31_CancelResetsToIdle ==
  [][lastEvent' = "CANCEL" => value' = "idle"]_vars

\* C31: CANCEL leads to idle from listening, interrupted and error, and is
\* dropped in every other state.
C31_CancelWhereHandled ==
  [][(lastEvent' = "CANCEL" /\ prevValue' = value)
       => value' = IF value \in {"listening", "interrupted", "error"}
                   THEN "idle" ELSE value]_vars

\* ----------------------------------------------------------------- claim C32
\* C32: in a session of one utterance, when the reply's playback has ended
\* and the machine leaves responding, the state it enters is ready.
C32_EndedPassesThroughReady ==
  [][(/\ value = "responding" /\ value' # "responding"
      /\ nextUtt = 1 /\ ~vadSpeaking
      /\ elemState[1] = "ended" /\ activeAudioElementRef = 0)
       => value' = "ready"]_vars

\* C32: the step in which a playback ends clears the pending request and
\* the playback slot.
C32_EndedClearsTurn ==
  [][\A u \in Utts :
       (elemState[u] = "playing" /\ elemState'[u] = "ended")
         => pendingRequestRef'.id = 0 /\ activeAudioElementRef' = 0]_vars

\* ----------------------------------------------------------------- claim C33
\* C33: after a misfire has taken the machine from listening to
\* interrupted, the machine returns to listening.
C33_MisfireReturnsToListening ==
  (value = "interrupted" /\ lastEvent = "INTERRUPT"
     /\ prevValue = "listening")
    ~> (value = "listening")

\* C33: the step of a misfire (the VAD stops hearing speech and no
\* utterance is counted) puts nothing on the wire and takes a listening
\* machine to interrupted.
C33_MisfireSendsNothing ==
  [][(vadSpeaking /\ ~vadSpeaking' /\ nextUtt' = nextUtt)
       => /\ wire' = wire /\ messageQueue' = messageQueue
          /\ (value = "listening" => value' = "interrupted")]_vars

\* ----------------------------------------------------------------- claim C34
\* C34: a speech end that files no request (zero-length audio) puts
\* nothing on the wire or in the queue, arms no 30 s timer, leaves the
\* pending request and the processing flag as they were, and sends the
\* machine SPEECH_END only.
C34_EmptyEndSendsNothing ==
  [][(vadSpeaking /\ ~vadSpeaking' /\ nextUtt' = nextUtt + 1
        /\ pendingRequestRef'.id # nextUtt')
       => /\ wire' = wire /\ messageQueue' = messageQueue
          /\ procTimers' = procTimers
          /\ pendingRequestRef' = pendingRequestRef
          /\ isProcessingRef' = isProcessingRef
          /\ debounced' = debounced
          /\ value' \in {value, "processing"}]_vars

\* C34: a machine in processing with no request outstanding (no flag, no
\* 30 s timer, no ERROR on its way) reaches ready, unless a request is
\* filed or a misfire interrupts first.
C34_EmptyEndReturnsToReady ==
  (value = "processing" /\ ~isProcessingRef /\ procTimers = 0
     /\ debounced # "ERROR")
    ~> (value = "ready" \/ isProcessingRef \/ value = "interrupted")

\* C34: while no utterance has been sent on the open channel the machine
\* is not in error.
C34_NoErrorWithoutRequest ==
  (vadEffect = "mounted"
     /\ \A i \in 1..Len(wire) : wire[i].type # "end_audio")
    => value # "error"

C35_SpeechStartIgnoredInProcessing ==
  [][(value = "processing" /\ ~vadSpeaking /\ vadSpeaking')
       => /\ value' = value /\ lastEvent' = lastEvent
          /\ debounced' = debounced
          /\ pendingRequestRef' = pendingRequestRef
          /\ activeAudioElementRef' = activeAudioElementRef
          /\ elemState' = elemState
          /\ isProcessingRef' = isProcessingRef
          /\ conversationActiveRef' = conversationActiveRef
          /\ isPlaying' = isPlaying
          /\ wire' = wire]_vars

\* C35: a speech start reported while the processing flag is set changes
\* nothing.
C35_SpeechStartIgnoredWhileFlagSet ==
  [][(isProcessingRef /\ ~vadSpeaking /\ vadSpeaking')
       => /\ value' = value /\ lastEvent' = lastEvent
          /\ debounced' = debounced
          /\ pendingRequestRef' = pendingRequestRef
          /\ activeAudioElementRef' = activeAudioElementRef
          /\ elemState' = elemState
          /\ isProcessingRef' = isProcessingRef
          /\ conversationActiveRef' = conversationActiveRef
          /\ isPlaying' = isPlaying
          /\ wire' = wire]_vars

\* C35: a speech start reported while the machine is in processing sends
\* and schedules no machine event and leaves the playback slot, the audio
\* elements, the turn flags and the wire as they are.
C35_OnlyPendingTouched ==
  [][(value = "processing" /\ ~vadSpeaking /\ vadSpeaking')
       => /\ value' = value /\ lastEvent' = lastEvent
          /\ debounced' = debounced
          /\ activeAudioElementRef' = activeAudioElementRef
          /\ elemState' = elemState
          /\ isProcessingRef' = isProcessingRef
          /\ conversationActiveRef' = conversationActiveRef
          /\ isPlaying' = isPlaying
          /\ wire' = wire]_vars

\* ----------------------------------------------------------------- claim C36
\* C36: when the init that onOpen sends is put on the wire, no message
\* queued before the open is still waiting in the queue.
C36_NoOvertaking ==
  [][(Len(wire') > Len(wire) /\ wire'[Len(wire')] = InitMsg)
       => messageQueue' = <<>>]_vars

\* C36: the messages that one flush takes from the queue reach the wire in
\* the order in which they were queued.
C36_QueuedAmongThemselves ==
  \A j \in 2..Len(wire) :
    (wire[j - 1].type # "init" /\ wire[j].type # "init")
      => wire[j - 1].id <= wire[j].id

\* ----------------------------------------------------------------- claim C37
\* C37: an event waiting in the debounce leaves it only by being delivered
\* to the machine.
C37_NoEventReplaced ==
  [][(debounced # "none" /\ debounced' # debounced)
       => lastEvent' = debounced]_vars

\* C37: the event that the debounce timer delivers is the one submitted
\* last, and the machine takes the step of that event.
C37_LastSubmittedDelivered ==
  [][(debounced # "none" /\ debounced' = "none" /\ vadEffect' = vadEffect
        /\ vadSpeaking' = vadSpeaking /\ nextUtt' = nextUtt
        /\ lastEvent' = debounced)
       => value' = MachineStep(value, error, debounced).value]_vars

\* C37: when handleAudioEnded has run, the END it submitted first is
\* waiting in the debounce or has reached the machine.
C37_EndSubmittedIsDelivered ==
  [][\A u \in Utts :
       (elemState[u] = "playing" /\ elemState'[u] = "ended")
         => (debounced' = "END" \/ lastEvent' = "END")]_vars

\* ----------------------------------------------------------------- claim C38
\* C38: whenever the element of a session is playing, activePlayer refers
\* to it and isSpeaking is true.
C38_PlayingIsActive ==
  \A p \in Plays :
    player[p] = "playing" => (activePlayer = p /\ isSpeaking)

\* C38: the late rejection of the play() promise of a cancelled element
\* leaves activePlayer and isSpeaking as they are.
C38_LateRejectionKeepsState ==
  [][\A p \in Plays :
       (player[p] = "aborting" /\ player'[p] = "paused")
         => (activePlayer' = activePlayer /\ isSpeaking' = isSpeaking)]_vars

\* C38: cancelSpeech pauses the element that activePlayer refers to.
C38_CancelStopsActive ==
  [][(activePlayer # 0 /\ activePlayer' = 0 /\ queue' = <<>>
        /\ onEndCalls' = onEndCalls /\ onErrorCalls' = onErrorCalls)
       => player'[activePlayer] \in {"paused", "aborting"}]_vars

\* ----------------------------------------------------------------- claim C39
\* C39: when connect() has been called since the last disconnect() and the
\* manager's socket closes without close() having been called on it, below
\* the ceiling, a reconnect is scheduled.
C39_ReconnectAfterExplicitConnect ==
  [][(/\ ws # 0 /\ socks[ws] \in {"CONNECTING", "OPEN"}
      /\ socks'[ws] = "CLOSED"
      /\ ~disconnected /\ ~isDestroyed
      /\ reconnectAttempts < maxReconnectAttempts)
       => reconnectTimer']_vars

\* C39: the same close schedules a reconnect whenever isIntentionalClose is
\* false, which is the case from the moment the connection has opened.
C39_ReconnectWhenFlagClear ==
  [][(/\ ws # 0 /\ socks[ws] \in {"CONNECTING", "OPEN"}
      /\ socks'[ws] = "CLOSED"
      /\ ~isIntentionalClose /\ ~isDestroyed
      /\ reconnectAttempts < maxReconnectAttempts)
       => reconnectTimer']_vars

\* C39: the onopen of the manager's socket clears isIntentionalClose.
C39_OpenClearsFlag ==
  [][(ws # 0 /\ socks[ws] = "CONNECTING" /\ socks'[ws] = "OPEN")
       => ~isIntentionalClose']_vars

\* ----------------------------------------------------------------- claim C40
\* C40: a non-empty utterance that onSpeechEnd accepts (the processing flag
\* is clear) is handed to the channel or stored as the pending request.
C40_AcceptedIsSentOrStored ==
  [][(nextUtt' = nextUtt + 1 /\ ~isProcessingRef)
       => \/ pendingRequestRef'.id = nextUtt'
          \/ Len(wire') > Len(wire)
          \/ Len(messageQueue') > Len(messageQueue)]_vars

\* C40: onSpeechEnd leaves the processing flag set only for an utterance it
\* handed to the channel.
C40_FlagOnlyForSent ==
  [][(nextUtt' = nextUtt + 1 /\ ~isProcessingRef /\ isProcessingRef')
       => Len(wire') = Len(wire) + 2]_vars

\* C40: with no reply audio loading or playing, the accepted utterance is
\* the pending request afterwards, and was sent if the flag is set.
C40_StoredWhenNoAudio ==
  [][(nextUtt' = nextUtt + 1 /\ ~isProcessingRef
      /\ ~isPlayingRef /\ ~isAudioLoadingRef)
       => /\ pendingRequestRef'.id = nextUtt'
          /\ isProcessingRef' => Len(wire') = Len(wire) + 2]_vars

\* C40: on an open channel the accepted utterance goes out as its
\* audio_chunk followed by its end_audio.
C40_SentAsChunkThenEnd ==
  [][(nextUtt' = nextUtt + 1 /\ ~isProcessingRef /\ isWebSocketConnected)
       => /\ Len(wire') = Len(wire) + 2
          /\ wire'[Len(wire') - 1] = ChunkMsg(nextUtt')
          /\ wire'[Len(wire')] = EndMsg(nextUtt')]_vars

====
